---- MODULE Spec2Model ----
(***************************************************************************)
(* Bone rigging engine of wfl-animator (src/src/rigging/dragon-bones.js): *)
(* the Armature's clip registry, bone lookup, playback cursor              *)
(* (play / stop / advanceTime) and keyframe sampling (applyAnimation), the *)
(* bone tree with its world transforms, the skeleton loader and the        *)
(* DragonBonesRigging facade; and the calls that the controller            *)
(* (src/src/animator.js) makes on the facade when a parameter is set or    *)
(* the state machine changes its state.                                    *)
(*                                                                         *)
(* Nine specifications share the variables:                                *)
(*   Spec        an Armature driven through its own methods                *)
(*   SpecLive    an Armature whose advanceTime is called again and again   *)
(*   SpecSample  one applyAnimation call on a bone, over generated tracks  *)
(*   SpecRig     a facade: loadArmature, playAnimation, update, setters    *)
(*   SpecFacade  a facade with its display: every public operation         *)
(*   SpecHeld    SpecFacade, and calls made on the armature it holds       *)
(*   SpecManual  a facade whose bones are posed by hand while clips play   *)
(*   SpecController  the controller's handlers on a facade                 *)
(*   SpecBones   bones linked by addChild and removeChild                  *)
(*                                                                         *)
(* Times and channel values are JavaScript numbers in the source.  They    *)
(* are modelled as integers: one unit of time is one tick, and keyframe    *)
(* values are multiples of 6 so that every interpolation over a span of    *)
(* 1, 2 or 3 ticks is an exact integer.  Arithmetic is exact: rounding of  *)
(* IEEE doubles is not modelled.  Clip objects are immutable and referred  *)
(* to by their index in AnimPool, so that a name registered again with     *)
(* another clip leaves the clip being played as it is.  A rotation is a    *)
(* whole number of units of 15 degrees; world transforms are computed for  *)
(* rotations that are multiples of 90 degrees, where cos and sin are       *)
(* integers.  A bone is identified by its name: a Bone object that is      *)
(* replaced in the bone map is referenced by nothing else.                 *)
(***************************************************************************)
EXTENDS Integers, Sequences, FiniteSets, TLC

VARIABLES
  boneMap,               \* Armature.boneMap: bone name -> Bone
  animations,            \* Armature.animations: clip name -> clip (index in AnimPool)
  currentAnimation,      \* clip object being played (index in AnimPool) or null
  currentAnimationName,  \* its name, or null
  animationTime,         \* elapsed time in the clip
  animationPlayTimes,    \* configured repeat count
  animationLoopCount,    \* completed loops
  isPlaying,
  root,                  \* Armature.root: name of the root bone, or null
  loaded,                \* DragonBonesRigging.armature is this armature (not null)
  armatureDisplay,       \* DragonBonesRigging.armatureDisplay: an ArmatureDisplay, or null
  parameters,            \* WFLAnimator.parameters: parameter name -> value
  lastCall,              \* history: the last Armature method called, the arguments given
                         \* to play or stop, and the playback state the call was made in
  sumDt                  \* history: sum of the dt of all advanceTime calls since the last play

cursor == <<currentAnimation, currentAnimationName, animationTime,
            animationPlayTimes, animationLoopCount, isPlaying>>
vars == <<boneMap, animations, currentAnimation, currentAnimationName, animationTime,
          animationPlayTimes, animationLoopCount, isPlaying, root, loaded, armatureDisplay,
          parameters, lastCall, sumDt>>
\* what the methods of the Armature leave alone: its root, the facade and the
\* parameters of the controller
rig == <<root, loaded, armatureDisplay, parameters>>

----------------------------------------------------------------------------
(* Bounds of the model *)

\* largest finite repeat count passed to play
MaxPlayTimes == 2
\* largest dt passed to one advanceTime call
MaxDt == 3
\* advanceTime is not called once the dt since the last play sum up to this
MaxSum == 6
\* most keyframes in a generated track
MaxKeyframes == 3
\* latest time of a keyframe of a generated track
MaxTime == 3

----------------------------------------------------------------------------
(* JavaScript values *)

\* null / undefined for a currentAnimation reference
NoAnim == 0
\* null / undefined where a name is expected (no clip or bone is called this)
null == "<null>"
\* an optional field of an object literal: absent, or present with a value
None == <<>>
Some(v) == <<v>>

\* `!name` for a name argument: undefined, null and the empty string are falsy
Falsy(name) == name = null \/ name = ""

\* `v ?? d`
Nullish(v, d) == IF v = None THEN d ELSE v[1]

----------------------------------------------------------------------------
(* Inputs *)

\* names under which addAnimation registers clips
ClipNames == {"idle", "wave"}
\* names passed to play and stop: the registered ones, one that never is, and ""
CallNames == ClipNames \cup {"none", ""}
\* names under which bones are registered
BoneNames == {"root", "arm"}

\* the parameters a controller registers, with their default values
DefaultParameters ==
  [mouthState |-> 0, headTurn |-> 0, eyeState |-> 0, roastTone |-> 0, isTalking |-> FALSE]

Keyframe(time, rotation, position, scale) ==
  [time |-> time, rotation |-> rotation, position |-> position, scale |-> scale]
Vec(x, y) == [x |-> x, y |-> y]
Track(boneName, keyframes) == [boneName |-> boneName, keyframes |-> keyframes]

\* The clip objects handed to addAnimation: { duration, tracks }.
\*  1: one track, three keyframes, the middle one without position
\*  2: a track whose two last keyframes share the time of the clip end, a
\*     track for a bone that is not registered, a track without keyframes,
\*     and two tracks for the same bone
\*  3: a clip of duration 0
\*  4: the clip the loader makes of a description without duration and tracks
\*  5: one track whose two keyframes define every channel
AnimPool == <<
  [duration |-> 2,
   tracks |-> << Track("root", << Keyframe(0, Some(0), Some(Vec(0, 0)), None),
                                   Keyframe(1, Some(12), None, None),
                                   Keyframe(2, Some(6), Some(Vec(6, 12)), None) >>) >>],
  [duration |-> 3,
   tracks |-> << Track("arm", << Keyframe(0, Some(6), None, None),
                                  Keyframe(3, Some(6), None, Some(Vec(6, 6))),
                                  Keyframe(3, Some(12), None, Some(Vec(12, 12))) >>),
                 Track("ghost", << Keyframe(0, Some(6), None, None) >>),
                 Track("root", << >>),
                 Track("root", << Keyframe(0, Some(0), None, None),
                                   Keyframe(3, Some(18), None, None) >>),
                 Track("root", << Keyframe(3, Some(6), None, None) >>) >>],
  [duration |-> 0,
   tracks |-> << Track("arm", << Keyframe(0, Some(24), None, None) >>) >>],
  [duration |-> 1, tracks |-> << >>],
  [duration |-> 2,
   tracks |-> << Track("arm", << Keyframe(0, Some(0), Some(Vec(0, 0)), Some(Vec(6, 6))),
                                  Keyframe(2, Some(12), Some(Vec(12, 12)), Some(Vec(12, 6))) >>) >>]
>>
AnimIds == 1..Len(AnimPool)

\* the (name, clip) pairs given to addAnimation: each name is registered, and
\* registered again, with either of two clips
Registrations == {<<"idle", 1>>, <<"idle", 2>>, <<"wave", 2>>, <<"wave", 3>>}

\* constructor options of a bone: some fields given, the others left to their defaults
BoneOpts == {
  [x |-> Some(6), y |-> None, rotation |-> Some(30), scaleX |-> None, scaleY |-> Some(2), length |-> None]
}

----------------------------------------------------------------------------
(* Bone *)

\* a 2x3 matrix   | a  c  tx |
\*                | b  d  ty |
Matrix(a, b, c, d, tx, ty) == [a |-> a, b |-> b, c |-> c, d |-> d, tx |-> tx, ty |-> ty]

Bone(name, opts) ==
  [name |-> name,
   parent |-> null,
   children |-> << >>,
   position |-> Vec(Nullish(opts.x, 0), Nullish(opts.y, 0)),
   rotation |-> Nullish(opts.rotation, 0),
   scale |-> Vec(Nullish(opts.scaleX, 1), Nullish(opts.scaleY, 1)),
   length |-> Nullish(opts.length, 50),
   worldTransform |-> Matrix(1, 0, 0, 1, 0, 0)]

\* addChild that takes the child out of the children list of the parent it had
addChild_detaching(bones, bone, child) ==
  LET old == bones[child].parent
      detached == IF old = null THEN bones
                  ELSE [bones EXCEPT ![old].children = SelectSeq(@, LAMBDA c : c # child)]
  IN  [detached EXCEPT ![child].parent = bone, ![bone].children = Append(@, child)]

\* bone.addChild(child), on the bones of a bone map
addChild(bones, bone, child) ==
  [bones EXCEPT ![child].parent = bone, ![bone].children = Append(@, child)]

\* Array.prototype.indexOf, counted from 1; 0 when the element is not there
IndexOf(list, element) ==
  IF \E i \in DOMAIN list : list[i] = element
    THEN CHOOSE i \in DOMAIN list :
           list[i] = element /\ \A j \in DOMAIN list : list[j] = element => i <= j
    ELSE 0

\* Array.prototype.splice(idx, 1)
Splice(list, idx) == [i \in 1..(Len(list) - 1) |-> IF i < idx THEN list[i] ELSE list[i + 1]]

\* bone.removeChild(child), on the bones of a bone map
removeChild(bones, bone, child) ==
  LET idx == IndexOf(bones[bone].children, child) IN
  IF idx # 0
    THEN [bones EXCEPT ![bone].children = Splice(@, idx), ![child].parent = null]
    ELSE bones

\* units of rotation in a quarter turn (Math.PI / 2)
QuarterTurn == 6

\* Math.cos and Math.sin of a rotation that is a multiple of a quarter turn
Cos(rotation) == CASE (rotation \div QuarterTurn) % 4 = 0 -> 1
                   [] (rotation \div QuarterTurn) % 4 = 2 -> -1
                   [] OTHER -> 0
Sin(rotation) == CASE (rotation \div QuarterTurn) % 4 = 1 -> 1
                   [] (rotation \div QuarterTurn) % 4 = 3 -> -1
                   [] OTHER -> 0

\* a local matrix that moves on from the cached world translation
LocalMatrix_fromWorld(bone) ==
  Matrix(Cos(bone.rotation) * bone.scale.x, Sin(bone.rotation) * bone.scale.x,
         (-Sin(bone.rotation)) * bone.scale.y, Cos(bone.rotation) * bone.scale.y,
         bone.worldTransform.tx + bone.position.x, bone.worldTransform.ty + bone.position.y)

\* local matrix T * R * S of a bone
LocalMatrix(bone) ==
  Matrix(Cos(bone.rotation) * bone.scale.x, Sin(bone.rotation) * bone.scale.x,
         (-Sin(bone.rotation)) * bone.scale.y, Cos(bone.rotation) * bone.scale.y,
         bone.position.x, bone.position.y)

\* local * parent
Multiply_swapped(p, l) ==
  Matrix(l.a * p.a + l.c * p.b, l.b * p.a + l.d * p.b,
         l.a * p.c + l.c * p.d, l.b * p.c + l.d * p.d,
         l.a * p.tx + l.c * p.ty + l.tx, l.b * p.tx + l.d * p.ty + l.ty)

\* parent * local
Multiply(p, l) ==
  Matrix(p.a * l.a + p.c * l.b, p.b * l.a + p.d * l.b,
         p.a * l.c + p.c * l.d, p.b * l.c + p.d * l.d,
         p.a * l.tx + p.c * l.ty + p.tx, p.b * l.tx + p.d * l.ty + p.ty)

\* bone.computeWorldTransform(), on the bones of a bone map: the bone, then
\* its children in list order.  The result is [ok, bones]; ok is FALSE when the
\* recursion does not end (a path through more bones than there are follows
\* a cycle of children), which in JavaScript ends in a RangeError.
RECURSIVE computeWorldTransform(_, _, _)
RECURSIVE ComputeChildren(_, _, _, _)
computeWorldTransform(bones, name, depth) ==
  IF depth > Cardinality(DOMAIN bones)
    THEN [ok |-> FALSE, bones |-> bones]
    ELSE LET bone  == bones[name]
             world == IF bone.parent # null
                        THEN Multiply(bones[bone.parent].worldTransform, LocalMatrix(bone))
                        ELSE LocalMatrix(bone)
         IN  ComputeChildren([bones EXCEPT ![name].worldTransform = world],
                             bone.children, 1, depth)
ComputeChildren(bones, children, i, depth) ==
  IF i > Len(children)
    THEN [ok |-> TRUE, bones |-> bones]
    ELSE LET r == computeWorldTransform(bones, children[i], depth + 1)
         IN  IF r.ok THEN ComputeChildren(r.bones, children, i + 1, depth) ELSE r

\* a pass that starts from every bone without parent
RECURSIVE ComputeFrom(_, _)
ComputeFrom(bones, starts) ==
  IF starts = {} THEN [ok |-> TRUE, bones |-> bones]
  ELSE LET n == CHOOSE m \in starts : TRUE
           r == computeWorldTransform(bones, n, 1)
       IN  IF r.ok THEN ComputeFrom(r.bones, starts \ {n}) ELSE r
WorldTransforms_everyParentless(bones, rootName) ==
  ComputeFrom(bones, {n \in DOMAIN bones : bones[n].parent = null})

\* armature.updateWorldTransforms(), on a bone map and a root
WorldTransforms(bones, rootName) ==
  IF rootName # null
    THEN computeWorldTransform(bones, rootName, 1)
    ELSE [ok |-> TRUE, bones |-> bones]

----------------------------------------------------------------------------
(* Armature *)

\* The three playback states of the cursor.
Idle == currentAnimation = NoAnim
Playing == currentAnimation # NoAnim /\ isPlaying
StoppedTerminal == currentAnimation # NoAnim /\ ~isPlaying
PlaybackState == IF Idle THEN "Idle" ELSE IF isPlaying THEN "Playing" ELSE "Stopped"

\* history record of a call made in the current state
Call(op, args) == [op |-> op, args |-> args, from |-> PlaybackState]

Init ==
  /\ boneMap = [k \in {} |-> null]
  /\ animations = [k \in {} |-> NoAnim]
  /\ currentAnimation = NoAnim
  /\ currentAnimationName = null
  /\ animationTime = 0
  /\ animationPlayTimes = -1
  /\ animationLoopCount = 0
  /\ isPlaying = FALSE
  /\ root = null
  /\ loaded = FALSE
  /\ armatureDisplay = None
  /\ parameters = DefaultParameters
  /\ lastCall = [op |-> "new", args |-> << >>, from |-> "Idle"]
  /\ sumDt = 0

\* Map.prototype.set
MapSet(map, key, value) ==
  [k \in DOMAIN map \cup {key} |-> IF k = key THEN value ELSE map[k]]

\* Map.prototype.get, with `undefined` given as `absent`
MapGet(map, key, absent) == IF key \in DOMAIN map THEN map[key] ELSE absent

addBone(name, opts) ==
  /\ boneMap' = MapSet(boneMap, name, Bone(name, opts))
  /\ lastCall' = Call("addBone", << >>)
  /\ UNCHANGED <<animations, cursor, sumDt>>

\* addAnimation that makes a clip registered under the name of the current
\* clip the current clip
addAnimation_repointsCursor(name, data) ==
  /\ animations' = MapSet(animations, name, data)
  /\ lastCall' = Call("addAnimation", << >>)
  /\ currentAnimation' = IF name = currentAnimationName THEN data ELSE currentAnimation
  /\ UNCHANGED <<boneMap, currentAnimationName, animationTime, animationPlayTimes,
                 animationLoopCount, isPlaying, sumDt>>

addAnimation(name, data) ==
  /\ animations' = MapSet(animations, name, data)
  /\ lastCall' = Call("addAnimation", << >>)
  /\ UNCHANGED <<boneMap, cursor, sumDt>>

\* play without the reset of the loop counter
play_keepsLoopCount(name, playTimes) ==
  LET anim == MapGet(animations, name, NoAnim) IN
  /\ lastCall' = Call("play", <<name, playTimes>>)
  /\ IF anim = NoAnim
       THEN UNCHANGED <<cursor, sumDt>>
       ELSE /\ currentAnimation' = anim
            /\ currentAnimationName' = name
            /\ animationTime' = 0
            /\ animationPlayTimes' = playTimes
            /\ isPlaying' = TRUE
            /\ sumDt' = 0
            /\ UNCHANGED animationLoopCount
  /\ UNCHANGED <<boneMap, animations>>

\* play without the early return for a name that is not registered
play_unguarded(name, playTimes) ==
  /\ lastCall' = Call("play", <<name, playTimes>>)
  /\ currentAnimation' = MapGet(animations, name, NoAnim)
  /\ currentAnimationName' = name
  /\ animationTime' = 0
  /\ animationPlayTimes' = playTimes
  /\ animationLoopCount' = 0
  /\ isPlaying' = TRUE
  /\ sumDt' = 0
  /\ UNCHANGED <<boneMap, animations>>

play(name, playTimes) ==
  LET anim == MapGet(animations, name, NoAnim) IN
  /\ lastCall' = Call("play", <<name, playTimes>>)
  /\ IF anim = NoAnim
       THEN UNCHANGED <<cursor, sumDt>>
       ELSE /\ currentAnimation' = anim
            /\ currentAnimationName' = name
            /\ animationTime' = 0
            /\ animationPlayTimes' = playTimes
            /\ animationLoopCount' = 0
            /\ isPlaying' = TRUE
            /\ sumDt' = 0
  /\ UNCHANGED <<boneMap, animations>>

\* stop without the reset of the elapsed time
stop_keepsTime(name) ==
  /\ lastCall' = Call("stop", <<name>>)
  /\ IF Falsy(name) \/ currentAnimationName = name
       THEN /\ isPlaying' = FALSE
            /\ currentAnimation' = NoAnim
            /\ currentAnimationName' = null
            /\ animationLoopCount' = 0
            /\ sumDt' = 0
            /\ UNCHANGED <<animationPlayTimes, animationTime>>
       ELSE UNCHANGED <<cursor, sumDt>>
  /\ UNCHANGED <<boneMap, animations>>

\* stop that ignores the name it is given
stop_anyName(name) ==
  /\ lastCall' = Call("stop", <<name>>)
  /\ isPlaying' = FALSE
  /\ currentAnimation' = NoAnim
  /\ currentAnimationName' = null
  /\ animationTime' = 0
  /\ animationLoopCount' = 0
  /\ sumDt' = 0
  /\ UNCHANGED animationPlayTimes
  /\ UNCHANGED <<boneMap, animations>>

\* stop that puts every bone back to rotation 0
stop_resetsPose(name) ==
  /\ lastCall' = Call("stop", <<name>>)
  /\ IF Falsy(name) \/ currentAnimationName = name
       THEN /\ isPlaying' = FALSE
            /\ currentAnimation' = NoAnim
            /\ currentAnimationName' = null
            /\ animationTime' = 0
            /\ animationLoopCount' = 0
            /\ sumDt' = 0
            /\ boneMap' = [b \in DOMAIN boneMap |-> [boneMap[b] EXCEPT !.rotation = 0]]
            /\ UNCHANGED animationPlayTimes
       ELSE UNCHANGED <<cursor, sumDt, boneMap>>
  /\ UNCHANGED animations

stop(name) ==
  /\ lastCall' = Call("stop", <<name>>)
  /\ IF Falsy(name) \/ currentAnimationName = name
       THEN /\ isPlaying' = FALSE
            /\ currentAnimation' = NoAnim
            /\ currentAnimationName' = null
            /\ animationTime' = 0
            /\ animationLoopCount' = 0
            /\ sumDt' = 0
            /\ UNCHANGED animationPlayTimes
       ELSE UNCHANGED <<cursor, sumDt>>
  /\ UNCHANGED <<boneMap, animations>>

----------------------------------------------------------------------------
(* Keyframe sampling *)

\* the interpolation factor t = num / den, kept as an exact fraction
Factor(num, den) == [num |-> num, den |-> den]

\* lerp with its endpoints swapped
lerp_swapped(a, b, t) == b + ((a - b) * t.num) \div t.den

lerp(a, b, t) == a + ((b - a) * t.num) \div t.den

\* a search that always ends with the first and the last keyframe
Surrounding_ends(kf, time) == [prev |-> kf[1], next |-> kf[Len(kf)]]

\* The keyframes prev and next that applyAnimation's search loop ends with.
Surrounding(kf, time) ==
  LET n == Len(kf)
      Inside(i) == time >= kf[i].time /\ time <= kf[i + 1].time
      Before(i) == time < kf[i].time
      breaks == {i \in 1..(n - 1) : Inside(i) \/ Before(i)}
  IN  IF breaks = {}
        THEN [prev |-> kf[1], next |-> kf[n]]
        ELSE LET i == CHOOSE j \in breaks : \A k \in breaks : j <= k
             IN  IF Inside(i)
                   THEN [prev |-> kf[i], next |-> kf[i + 1]]
                   ELSE [prev |-> kf[i], next |-> kf[i]]

\* an iteration that resets a channel which prev or next lacks to its default
ApplyTrack_dense(bones, track, time) ==
  IF track.boneName \notin DOMAIN bones \/ Len(track.keyframes) = 0
    THEN bones
    ELSE
      LET s == Surrounding(track.keyframes, time)
          t == IF s.next.time - s.prev.time > 0
                 THEN Factor(time - s.prev.time, s.next.time - s.prev.time)
                 ELSE Factor(0, 1)
      IN  [bones EXCEPT ![track.boneName] =
             [@ EXCEPT !.rotation = IF s.prev.rotation # None /\ s.next.rotation # None
                                      THEN lerp(s.prev.rotation[1], s.next.rotation[1], t)
                                      ELSE 0,
                       !.position = IF s.prev.position # None /\ s.next.position # None
                                      THEN Vec(lerp(s.prev.position[1].x, s.next.position[1].x, t),
                                               lerp(s.prev.position[1].y, s.next.position[1].y, t))
                                      ELSE Vec(0, 0),
                       !.scale = IF s.prev.scale # None /\ s.next.scale # None
                                   THEN Vec(lerp(s.prev.scale[1].x, s.next.scale[1].x, t),
                                            lerp(s.prev.scale[1].y, s.next.scale[1].y, t))
                                   ELSE Vec(1, 1)]]

\* One iteration of applyAnimation's loop over the tracks.
ApplyTrack(bones, track, time) ==
  IF track.boneName \notin DOMAIN bones \/ Len(track.keyframes) = 0
    THEN bones
    ELSE
      LET bone == bones[track.boneName]
          s    == Surrounding(track.keyframes, time)
          prev == s.prev
          next == s.next
          span == next.time - prev.time
          t    == IF span > 0 THEN Factor(time - prev.time, span) ELSE Factor(0, 1)
          rotation == IF prev.rotation # None /\ next.rotation # None
                        THEN lerp(prev.rotation[1], next.rotation[1], t)
                        ELSE bone.rotation
          position == IF prev.position # None /\ next.position # None
                        THEN Vec(lerp(prev.position[1].x, next.position[1].x, t),
                                 lerp(prev.position[1].y, next.position[1].y, t))
                        ELSE bone.position
          scale    == IF prev.scale # None /\ next.scale # None
                        THEN Vec(lerp(prev.scale[1].x, next.scale[1].x, t),
                                 lerp(prev.scale[1].y, next.scale[1].y, t))
                        ELSE bone.scale
      IN  [bones EXCEPT ![track.boneName] =
             [bone EXCEPT !.rotation = rotation, !.position = position, !.scale = scale]]

\* a loop over the tracks that ends at the first track it cannot apply
RECURSIVE ApplyTracks_break(_, _, _, _)
ApplyTracks_break(bones, tracks, i, time) ==
  IF i > Len(tracks) THEN bones
  ELSE IF tracks[i].boneName \notin DOMAIN bones \/ Len(tracks[i].keyframes) = 0 THEN bones
  ELSE ApplyTracks_break(ApplyTrack(bones, tracks[i], time), tracks, i + 1, time)

RECURSIVE ApplyTracks(_, _, _, _)
ApplyTracks(bones, tracks, i, time) ==
  IF i > Len(tracks) THEN bones
  ELSE ApplyTracks(ApplyTrack(bones, tracks[i], time), tracks, i + 1, time)

\* The bone map after sampling all tracks of the clip at the given time.
applyAnimation(bones, anim, time) == ApplyTracks(bones, anim.tracks, 1, time)

----------------------------------------------------------------------------
(* Per-frame advance *)

\* an early return that tests the clip alone
NotAdvancing_clipOnly == currentAnimation = NoAnim

\* the early return of advanceTime
NotAdvancing == ~isPlaying \/ currentAnimation = NoAnim

effectivePlayTimes(playTimes) == IF playTimes <= 0 THEN playTimes ELSE playTimes

\* a budget test that is off by one
Exhausted_offByOne(loopCount, playTimes) ==
  effectivePlayTimes(playTimes) > 0 /\ loopCount > effectivePlayTimes(playTimes)

\* the repeat budget is used up once loopCount loops are completed
Exhausted(loopCount, playTimes) ==
  effectivePlayTimes(playTimes) > 0 /\ loopCount >= effectivePlayTimes(playTimes)

\* no wrap at all: the time runs on past the clip end
WrapTime_none(time, duration) == time

\* a wrap that restarts the clip at 0
WrapTime_restart(time, duration) == 0

\* animationTime % anim.duration, for time >= 0 and duration > 0
WrapTime(time, duration) == time % duration

\* an advance that takes a clip of duration 0 as over at once: the test for
\* the clip end without `anim.duration > 0`
AdvanceTime_endsEmptyClip(dt) ==
  IF NotAdvancing
    THEN [animationTime |-> animationTime, animationLoopCount |-> animationLoopCount,
          isPlaying |-> isPlaying, boneMap |-> boneMap]
    ELSE
      LET anim == AnimPool[currentAnimation]
          time == animationTime + dt
          wrapped == IF anim.duration > 0 THEN WrapTime(time, anim.duration) ELSE 0
      IN  IF time >= anim.duration
            THEN IF Exhausted(animationLoopCount + 1, animationPlayTimes)
                   THEN [animationTime |-> anim.duration,
                         animationLoopCount |-> animationLoopCount + 1,
                         isPlaying |-> FALSE,
                         boneMap |-> applyAnimation(boneMap, anim, anim.duration)]
                   ELSE [animationTime |-> wrapped,
                         animationLoopCount |-> animationLoopCount + 1,
                         isPlaying |-> isPlaying,
                         boneMap |-> applyAnimation(boneMap, anim, wrapped)]
            ELSE [animationTime |-> time, animationLoopCount |-> animationLoopCount,
                  isPlaying |-> isPlaying, boneMap |-> applyAnimation(boneMap, anim, time)]

\* what advanceTime(dt) leaves in animationTime, animationLoopCount, isPlaying
\* and the bones
AdvanceTime(dt) ==
  IF NotAdvancing
    THEN [animationTime |-> animationTime, animationLoopCount |-> animationLoopCount,
          isPlaying |-> isPlaying, boneMap |-> boneMap]
    ELSE
      LET anim == AnimPool[currentAnimation]
          time == animationTime + dt
      IN  IF anim.duration > 0 /\ time >= anim.duration
            THEN IF Exhausted(animationLoopCount + 1, animationPlayTimes)
                   THEN [animationTime |-> anim.duration,
                         animationLoopCount |-> animationLoopCount + 1,
                         isPlaying |-> FALSE,
                         boneMap |-> applyAnimation(boneMap, anim, anim.duration)]
                   ELSE [animationTime |-> WrapTime(time, anim.duration),
                         animationLoopCount |-> animationLoopCount + 1,
                         isPlaying |-> isPlaying,
                         boneMap |-> applyAnimation(boneMap, anim, WrapTime(time, anim.duration))]
            ELSE [animationTime |-> time, animationLoopCount |-> animationLoopCount,
                  isPlaying |-> isPlaying, boneMap |-> applyAnimation(boneMap, anim, time)]

advanceTime(dt) ==
  /\ sumDt + dt <= MaxSum
  /\ lastCall' = Call("advanceTime", << >>)
  /\ sumDt' = IF currentAnimation = NoAnim THEN sumDt ELSE sumDt + dt
  /\ LET advanced == AdvanceTime(dt)
     IN  /\ animationTime' = advanced.animationTime
         /\ animationLoopCount' = advanced.animationLoopCount
         /\ isPlaying' = advanced.isPlaying
         /\ boneMap' = advanced.boneMap
  /\ UNCHANGED <<animations, currentAnimation, currentAnimationName, animationPlayTimes>>

----------------------------------------------------------------------------
(* The armature under every sequence of calls *)

PlayTimes == -1..MaxPlayTimes

Next ==
  \/ \E name \in BoneNames, opts \in BoneOpts : addBone(name, opts) /\ UNCHANGED rig
  \/ \E r \in Registrations : addAnimation(r[1], r[2]) /\ UNCHANGED rig
  \/ \E name \in CallNames, playTimes \in PlayTimes : play(name, playTimes) /\ UNCHANGED rig
  \/ \E name \in CallNames \cup {null} : stop(name) /\ UNCHANGED rig
  \/ \E dt \in 0..MaxDt : advanceTime(dt) /\ UNCHANGED rig

Spec == Init /\ [][Next]_vars

----------------------------------------------------------------------------
(* Playback that is advanced for ever *)

\* the clips registered for playback to its end: their duration is above 0
LiveRegistrations == {<<"idle", 1>>, <<"idle", 2>>, <<"wave", 4>>}

\* advanceTime(dt) in a playback of any length: the sum of dt since play is
\* counted up to MaxSum only
advanceTimeOn(dt) ==
  /\ lastCall' = Call("advanceTime", <<dt>>)
  /\ sumDt' = IF currentAnimation = NoAnim \/ sumDt + dt > MaxSum THEN sumDt ELSE sumDt + dt
  /\ LET advanced == AdvanceTime(dt)
     IN  /\ animationTime' = advanced.animationTime
         /\ animationLoopCount' = advanced.animationLoopCount
         /\ isPlaying' = advanced.isPlaying
         /\ boneMap' = advanced.boneMap
  /\ UNCHANGED <<animations, currentAnimation, currentAnimationName, animationPlayTimes, rig>>

\* the armature with a finite repeat count at every play and dt > 0 at every
\* advanceTime
NextLive ==
  \/ \E r \in LiveRegistrations : addAnimation(r[1], r[2]) /\ UNCHANGED rig
  \/ \E name \in ClipNames \cup {"none"}, playTimes \in 1..MaxPlayTimes :
       play(name, playTimes) /\ UNCHANGED rig
  \/ \E name \in {"idle", null} : stop(name) /\ UNCHANGED rig
  \/ \E dt \in 1..MaxDt : advanceTimeOn(dt)

\* advanceTime keeps being called: the controller calls update on every
\* animation frame
SpecLive ==
  Init /\ [][NextLive]_vars /\ WF_vars(\E dt \in 1..MaxDt : advanceTimeOn(dt))

----------------------------------------------------------------------------
(* One sample of one track *)

\* the bone that is sampled, as constructed
SampleBone == Bone("root", CHOOSE opts \in BoneOpts : TRUE)

\* the channels a keyframe defines
Channels == [rotation : BOOLEAN, position : BOOLEAN, scale : BOOLEAN]

\* the i-th keyframe of a generated track: its values depend on i alone, and
\* differ from one keyframe to the next
SampleKeyframe(i, time, ch) ==
  Keyframe(time,
           IF ch.rotation THEN Some(12 * i * i) ELSE None,
           IF ch.position THEN Some(Vec(12 * i, 60 - 12 * i)) ELSE None,
           IF ch.scale THEN Some(Vec(12 + 12 * i, 12)) ELSE None)

\* keyframe times in ascending order, equal times included
KeyTimes(n) == {ts \in [1..n -> 0..MaxTime] : \A i \in 1..(n - 1) : ts[i] <= ts[i + 1]}

\* the track for the bone with keyframes at the times ts defining the channels cs
SampleTrack(ts, cs) ==
  Track("root", [i \in DOMAIN ts |-> SampleKeyframe(i, ts[i], cs[i])])

\* sample times: before, between, at and after the keyframes
SampleTimes == 0..(MaxTime + 1)

InitSample ==
  /\ boneMap = [n \in {"root"} |-> SampleBone]
  /\ animations = << >>
  /\ currentAnimation = NoAnim
  /\ currentAnimationName = null
  /\ animationTime = 0
  /\ animationPlayTimes = -1
  /\ animationLoopCount = 0
  /\ isPlaying = FALSE
  /\ root = null
  /\ loaded = FALSE
  /\ armatureDisplay = None
  /\ parameters = DefaultParameters
  /\ lastCall = [op |-> "new", args |-> << >>, from |-> "Idle"]
  /\ sumDt = 0

\* armature.applyAnimation({duration, tracks: [track]}, time)
Sample(track, time) ==
  /\ lastCall' = Call("applyAnimation", <<track, time>>)
  /\ boneMap' = applyAnimation(boneMap, [duration |-> MaxTime, tracks |-> <<track>>], time)
  /\ UNCHANGED <<animations, cursor, rig, sumDt>>

\* one call on the bone as constructed: every track with 1..MaxKeyframes
\* keyframes, at every sample time
NextSample ==
  /\ lastCall.op = "new"
  /\ \E n \in 1..MaxKeyframes :
    \E ts \in KeyTimes(n), cs \in [1..n -> Channels], time \in SampleTimes :
      Sample(SampleTrack(ts, cs), time)

SpecSample == InitSample /\ [][NextSample]_vars

----------------------------------------------------------------------------
(* Skeleton descriptions *)

\* an entry of data.bones; parent is null when the entry declares none
Entry(name, parent, x, y, rotation, scaleX) ==
  [name |-> name, parent |-> parent, x |-> x, y |-> y, rotation |-> rotation,
   scaleX |-> scaleX, scaleY |-> None, length |-> None]

\* an entry of data.animations: { duration, tracks }, either of them optional
AnimData(duration, tracks) == [duration |-> duration, tracks |-> tracks]
IdleData == AnimData(Some(AnimPool[1].duration), Some(AnimPool[1].tracks))
WaveData == AnimData(Some(AnimPool[2].duration), Some(AnimPool[2].tracks))

\* The skeleton descriptions handed to loadArmature: { bones, animations }.
\*  1: a chain root - arm - hand, each parent declared before its child
\*  2: the same chain with a root that is not rotated, each child declared
\*     before its parent
\*  3: two parentless bones, root and ghost; root has the child hand, ghost
\*     has the child arm
\*  4: every entry declares a parent, and the first one a parent that names no bone
\*  5: two entries naming each other as parent
\*  6: an entry naming itself as parent, next to a root
\*  7: two parentless bones, and two entries of the same name, one under each
\*  8: two entries of the same name, the second naming itself as parent
\*  9: no bones and no animations
\* 10: no bones, and a clip
\* 11: two entries of the same name, one under the root and one under a child
\*     of the root
\* 12: a root and a child, and a clip of duration 0
\* 13: a root and a child, a clip that turns the root and a clip that moves the
\*     child on every channel
\* 14: a root and a head, and clips under names the controller plays
Skeletons == <<
  [bones |-> Some(<< Entry("root", null, Some(6), Some(12), Some(6), None),
                     Entry("arm", "root", Some(12), None, Some(6), Some(2)),
                     Entry("hand", "arm", None, Some(6), Some(12), None) >>),
   animations |-> Some(<< <<"idle", IdleData>>, <<"wave", WaveData>> >>)],
  [bones |-> Some(<< Entry("hand", "arm", None, Some(6), Some(12), None),
                     Entry("arm", "root", Some(12), None, Some(6), Some(2)),
                     Entry("root", null, Some(6), Some(12), None, None) >>),
   animations |-> Some(<< <<"idle", IdleData>> >>)],
  [bones |-> Some(<< Entry("root", null, Some(6), None, None, None),
                     Entry("ghost", null, Some(12), Some(6), Some(12), None),
                     Entry("arm", "ghost", Some(6), None, Some(6), None),
                     Entry("hand", "root", Some(12), Some(6), Some(6), Some(2)) >>),
   animations |-> Some(<< <<"wave", WaveData>>, <<"idle", AnimData(None, None)>> >>)],
  [bones |-> Some(<< Entry("arm", "nobody", Some(6), None, Some(6), None),
                     Entry("hand", "arm", Some(12), None, None, None) >>),
   animations |-> None],
  [bones |-> Some(<< Entry("root", "arm", Some(6), None, None, None),
                     Entry("arm", "root", Some(12), None, Some(6), None) >>),
   animations |-> Some(<< <<"idle", IdleData>> >>)],
  [bones |-> Some(<< Entry("root", null, Some(6), None, Some(6), None),
                     Entry("arm", "arm", Some(12), None, None, None) >>),
   animations |-> None],
  [bones |-> Some(<< Entry("root", null, Some(6), None, Some(6), None),
                     Entry("ghost", null, None, Some(6), Some(6), None),
                     Entry("arm", "root", Some(12), None, None, None),
                     Entry("arm", "ghost", Some(18), None, Some(6), None) >>),
   animations |-> None],
  [bones |-> Some(<< Entry("root", null, Some(6), None, None, None),
                     Entry("arm", "root", Some(12), None, None, None),
                     Entry("arm", "arm", Some(18), None, None, None) >>),
   animations |-> None],
  [bones |-> None, animations |-> None],
  [bones |-> None, animations |-> Some(<< <<"idle", IdleData>> >>)],
  [bones |-> Some(<< Entry("root", null, Some(6), None, Some(6), None),
                     Entry("hand", "root", None, Some(6), None, None),
                     Entry("arm", "root", Some(12), None, None, None),
                     Entry("arm", "hand", Some(18), None, Some(6), None) >>),
   animations |-> None],
  [bones |-> Some(<< Entry("root", null, Some(6), None, None, None),
                     Entry("arm", "root", Some(12), None, Some(6), None) >>),
   animations |-> Some(<< <<"idle", AnimData(Some(AnimPool[3].duration),
                                             Some(AnimPool[3].tracks))>> >>)],
  [bones |-> Some(<< Entry("root", null, Some(6), None, None, None),
                     Entry("arm", "root", Some(12), None, Some(6), None) >>),
   animations |-> Some(<< <<"idle", IdleData>>,
                          <<"wave", AnimData(Some(AnimPool[5].duration),
                                             Some(AnimPool[5].tracks))>> >>)],
  [bones |-> Some(<< Entry("root", null, Some(6), None, None, None),
                     Entry("head", "root", Some(12), None, Some(6), None) >>),
   animations |-> Some(<< <<"talking", IdleData>>,
                          <<"mouth_a", AnimData(None, None)>>,
                          <<"eyes_closed", WaveData>>,
                          <<"idle", AnimData(Some(AnimPool[3].duration),
                                             Some(AnimPool[3].tracks))>> >>)]
>>
SkeletonIds == 1..Len(Skeletons)

\* the descriptions loaded where manual poses are not followed
RigSkeletons == 1..12

----------------------------------------------------------------------------
(* buildArmatureFromData *)

\* first pass: a new Bone for every entry, registered under its name
RECURSIVE CreateBones(_, _, _)
CreateBones(bones, list, i) ==
  IF i > Len(list) THEN bones
  ELSE LET bd == list[i]
           bone == Bone(bd.name, [x |-> Some(Nullish(bd.x, 0)),
                                  y |-> Some(Nullish(bd.y, 0)),
                                  rotation |-> Some(Nullish(bd.rotation, 0)),
                                  scaleX |-> Some(Nullish(bd.scaleX, 1)),
                                  scaleY |-> Some(Nullish(bd.scaleY, 1)),
                                  length |-> Some(Nullish(bd.length, 50))])
       IN  CreateBones(MapSet(bones, bd.name, bone), list, i + 1)

\* a single pass: an entry becomes the child of a parent declared before it
RECURSIVE LinkBones_forward(_, _, _)
LinkBones_forward(bones, list, i) ==
  IF i > Len(list) THEN bones
  ELSE LET bd == list[i]
       IN  IF ~Falsy(bd.parent) /\ \E j \in 1..(i - 1) : list[j].name = bd.parent
             THEN LinkBones_forward(addChild(bones, bd.parent, bd.name), list, i + 1)
             ELSE LinkBones_forward(bones, list, i + 1)

\* second pass: every entry with a parent that is registered becomes its child
RECURSIVE LinkBones(_, _, _)
LinkBones(bones, list, i) ==
  IF i > Len(list) THEN bones
  ELSE LET bd == list[i]
       IN  IF ~Falsy(bd.parent) /\ bd.parent \in DOMAIN bones
             THEN LinkBones(addChild(bones, bd.parent, bd.name), list, i + 1)
             ELSE LinkBones(bones, list, i + 1)

\* boneMap.values() gives the bones in the order their names were first set
RECURSIVE KeyOrder(_)
KeyOrder(list) ==
  IF list = << >> THEN << >>
  ELSE LET front == KeyOrder(SubSeq(list, 1, Len(list) - 1))
           name  == list[Len(list)].name
       IN  IF \E i \in DOMAIN front : front[i] = name THEN front ELSE Append(front, name)

\* the last bone of the map without a parent, or null
FindRoot_last(bones, order) ==
  LET parentless == {i \in DOMAIN order : bones[order[i]].parent = null}
  IN  IF parentless = {} THEN null
      ELSE order[CHOOSE i \in parentless : \A j \in parentless : i >= j]

\* the first bone of the map without a parent, or null
FindRoot(bones, order) ==
  LET parentless == {i \in DOMAIN order : bones[order[i]].parent = null}
  IN  IF parentless = {} THEN null
      ELSE order[CHOOSE i \in parentless : \A j \in parentless : i <= j]

\* the clip { duration: animData.duration ?? 1, tracks: animData.tracks || [] }
ClipOf(animData) ==
  CHOOSE id \in AnimIds :
    AnimPool[id] = [duration |-> Nullish(animData.duration, 1),
                    tracks |-> Nullish(animData.tracks, << >>)]

RECURSIVE RegisterAnimations(_, _, _)
RegisterAnimations(anims, entries, i) ==
  IF i > Len(entries) THEN anims
  ELSE RegisterAnimations(MapSet(anims, entries[i][1], ClipOf(entries[i][2])), entries, i + 1)

\* buildArmatureFromData without the default for a missing `bones` list: the
\* loop over the list throws
buildArmatureFromData_noDefault(data) ==
  IF data.bones = None
    THEN [ok |-> FALSE, boneMap |-> << >>, root |-> null, animations |-> << >>]
    ELSE LET boneDataList == data.bones[1]
             created == CreateBones(<< >>, boneDataList, 1)
             linked  == LinkBones(created, boneDataList, 1)
             theRoot == FindRoot(linked, KeyOrder(boneDataList))
             anims   == IF data.animations # None
                          THEN RegisterAnimations(<< >>, data.animations[1], 1)
                          ELSE << >>
             world   == WorldTransforms(linked, theRoot)
         IN  [ok |-> world.ok, boneMap |-> world.bones, root |-> theRoot,
              animations |-> anims]

\* The armature built from a description: its bones, root and clips; ok is
\* FALSE when the initial updateWorldTransforms does not end.
buildArmatureFromData(data) ==
  LET boneDataList == Nullish(data.bones, << >>)
      created == CreateBones(<< >>, boneDataList, 1)
      linked  == LinkBones(created, boneDataList, 1)
      theRoot == FindRoot(linked, KeyOrder(boneDataList))
      anims   == IF data.animations # None
                   THEN RegisterAnimations(<< >>, data.animations[1], 1)
                   ELSE << >>
      world   == WorldTransforms(linked, theRoot)
  IN  [ok |-> world.ok, boneMap |-> world.bones, root |-> theRoot, animations |-> anims]

\* the armature built from each description of the pool
Built == [id \in SkeletonIds |-> buildArmatureFromData(Skeletons[id])]

----------------------------------------------------------------------------
(* DragonBonesRigging *)

\* a facade as constructed: no armature
InitRig ==
  /\ boneMap = << >>
  /\ animations = << >>
  /\ currentAnimation = NoAnim
  /\ currentAnimationName = null
  /\ animationTime = 0
  /\ animationPlayTimes = -1
  /\ animationLoopCount = 0
  /\ isPlaying = FALSE
  /\ root = null
  /\ loaded = FALSE
  /\ armatureDisplay = None
  /\ parameters = DefaultParameters
  /\ lastCall = [op |-> "new", args |-> << >>, from |-> "Idle"]
  /\ sumDt = 0

\* new ArmatureDisplay(armature).  A display refers to the armature it was
\* made for: the one the facade holds, or one that has been replaced since.
ArmatureDisplay(armature) ==
  [armature |-> armature, x |-> 0, y |-> 0, scaleX |-> 1, scaleY |-> 1]

\* a call on a facade without armature that makes an empty armature first
NoArmature_createsArmature(op) ==
  /\ ~loaded
  /\ lastCall' = Call(op, << >>)
  /\ loaded' = TRUE
  /\ UNCHANGED <<boneMap, animations, cursor, root, armatureDisplay, parameters, sumDt>>

\* a call on a facade without armature returns at once
NoArmature(op) ==
  /\ ~loaded
  /\ lastCall' = Call(op, << >>)
  /\ UNCHANGED <<boneMap, animations, cursor, rig, sumDt>>

\* loadArmature that makes a display only when the facade has none: a later
\* load leaves the display of the armature that was replaced
loadArmature_keepsDisplay(id) ==
  LET armature == Built[id] IN
  IF armature.ok
    THEN /\ lastCall' = Call("loadArmature", <<id, "returned">>)
         /\ boneMap' = armature.boneMap
         /\ root' = armature.root
         /\ animations' = armature.animations
         /\ currentAnimation' = NoAnim
         /\ currentAnimationName' = null
         /\ animationTime' = 0
         /\ animationPlayTimes' = -1
         /\ animationLoopCount' = 0
         /\ isPlaying' = FALSE
         /\ loaded' = TRUE
         /\ armatureDisplay' = IF armatureDisplay = None
                                 THEN Some(ArmatureDisplay("held"))
                                 ELSE Some([armatureDisplay[1] EXCEPT !.armature = "replaced"])
         /\ sumDt' = 0
         /\ UNCHANGED parameters
    ELSE /\ lastCall' = Call("loadArmature", <<id, "threw">>)
         /\ UNCHANGED <<boneMap, animations, cursor, rig, sumDt>>

\* loadArmature(Skeletons[id]); when building the armature throws, the facade
\* keeps the armature it had
loadArmature(id) ==
  LET armature == Built[id] IN
  IF armature.ok
    THEN /\ lastCall' = Call("loadArmature", <<id, "returned">>)
         /\ boneMap' = armature.boneMap
         /\ root' = armature.root
         /\ animations' = armature.animations
         /\ currentAnimation' = NoAnim
         /\ currentAnimationName' = null
         /\ animationTime' = 0
         /\ animationPlayTimes' = -1
         /\ animationLoopCount' = 0
         /\ isPlaying' = FALSE
         /\ loaded' = TRUE
         /\ armatureDisplay' = Some(ArmatureDisplay("held"))
         /\ sumDt' = 0
         /\ UNCHANGED parameters
    ELSE /\ lastCall' = Call("loadArmature", <<id, "threw">>)
         /\ UNCHANGED <<boneMap, animations, cursor, rig, sumDt>>

playAnimation(animationName, times) ==
  \/ NoArmature("playAnimation")
  \/ loaded /\ play(animationName, times) /\ UNCHANGED rig

stopAnimation(animationName) ==
  \/ NoArmature("stopAnimation")
  \/ loaded /\ stop(animationName) /\ UNCHANGED rig

\* armature.updateWorldTransforms(), called on the armature of the facade
updateWorldTransforms ==
  /\ loaded
  /\ lastCall' = Call("updateWorldTransforms", << >>)
  /\ boneMap' = WorldTransforms(boneMap, root).bones
  /\ UNCHANGED <<animations, cursor, rig, sumDt>>

\* update(deltaTime): advanceTime, then updateWorldTransforms
update(deltaTime) ==
  \/ NoArmature("update")
  \/ /\ loaded
     /\ sumDt + deltaTime <= MaxSum
     /\ lastCall' = Call("update", << >>)
     /\ sumDt' = IF currentAnimation = NoAnim THEN sumDt ELSE sumDt + deltaTime
     /\ LET advanced == AdvanceTime(deltaTime)
        IN  /\ animationTime' = advanced.animationTime
            /\ animationLoopCount' = advanced.animationLoopCount
            /\ isPlaying' = advanced.isPlaying
            /\ boneMap' = WorldTransforms(advanced.boneMap, root).bones
     /\ UNCHANGED <<animations, currentAnimation, currentAnimationName,
                    animationPlayTimes, rig>>

\* setBoneRotation that stores the degrees as they are given
setBoneRotation_degrees(boneName, degrees) ==
  \/ NoArmature("setBoneRotation")
  \/ /\ loaded
     /\ lastCall' = Call("setBoneRotation", <<boneName, degrees>>)
     /\ boneMap' = IF boneName \in DOMAIN boneMap
                     THEN [boneMap EXCEPT ![boneName].rotation = degrees]
                     ELSE boneMap
     /\ UNCHANGED <<animations, cursor, rig, sumDt>>

\* Math.PI in units of rotation
HalfTurn == 2 * QuarterTurn

setBoneRotation(boneName, degrees) ==
  \/ NoArmature("setBoneRotation")
  \/ /\ loaded
     /\ lastCall' = Call("setBoneRotation", <<boneName, degrees>>)
     /\ boneMap' = IF boneName \in DOMAIN boneMap
                     THEN [boneMap EXCEPT ![boneName].rotation = (degrees * HalfTurn) \div 180]
                     ELSE boneMap
     /\ UNCHANGED <<animations, cursor, rig, sumDt>>

setBonePosition(boneName, x, y) ==
  \/ NoArmature("setBonePosition")
  \/ /\ loaded
     /\ lastCall' = Call("setBonePosition", <<boneName, x, y>>)
     /\ boneMap' = IF boneName \in DOMAIN boneMap
                     THEN [boneMap EXCEPT ![boneName].position = Vec(x, y)]
                     ELSE boneMap
     /\ UNCHANGED <<animations, cursor, rig, sumDt>>

\* names passed to the setters: bones of the descriptions, and one of none
SetterNames == {"root", "arm", "ghost", "nobody"}

NextRig ==
  \/ \E id \in RigSkeletons : loadArmature(id)
  \/ \E name \in ClipNames \cup {"none"}, times \in {-1, 1} : playAnimation(name, times)
  \/ \E name \in {"idle", null} : stopAnimation(name)
  \/ \E dt \in 0..MaxDt : update(dt)
  \/ updateWorldTransforms
  \/ \E name \in SetterNames : setBoneRotation(name, 90)
  \/ \E name \in SetterNames : setBonePosition(name, 6, 18)

SpecRig == InitRig /\ [][NextRig]_vars

----------------------------------------------------------------------------
(* DragonBonesRigging with its display *)

setBoneScale(boneName, scaleX, scaleY) ==
  \/ NoArmature("setBoneScale")
  \/ /\ loaded
     /\ lastCall' = Call("setBoneScale", <<boneName, scaleX, scaleY>>)
     /\ boneMap' = IF boneName \in DOMAIN boneMap
                     THEN [boneMap EXCEPT ![boneName].scale = Vec(scaleX, scaleY)]
                     ELSE boneMap
     /\ UNCHANGED <<animations, cursor, rig, sumDt>>

\* a display setter on a facade without display returns at once
NoDisplay(op) ==
  /\ armatureDisplay = None
  /\ lastCall' = Call(op, << >>)
  /\ UNCHANGED <<boneMap, animations, cursor, rig, sumDt>>

setPosition(x, y) ==
  \/ NoDisplay("setPosition")
  \/ /\ armatureDisplay # None
     /\ lastCall' = Call("setPosition", <<x, y>>)
     /\ armatureDisplay' = Some([armatureDisplay[1] EXCEPT !.x = x, !.y = y])
     /\ UNCHANGED <<boneMap, animations, cursor, root, loaded, parameters, sumDt>>

setScale(scaleX, scaleY) ==
  \/ NoDisplay("setScale")
  \/ /\ armatureDisplay # None
     /\ lastCall' = Call("setScale", <<scaleX, scaleY>>)
     /\ armatureDisplay' = Some([armatureDisplay[1] EXCEPT !.scaleX = scaleX, !.scaleY = scaleY])
     /\ UNCHANGED <<boneMap, animations, cursor, root, loaded, parameters, sumDt>>

\* facade.getBone(boneName): the bone found, or none
getBone(boneName) ==
  IF ~loaded \/ boneName \notin DOMAIN boneMap THEN None ELSE Some(boneMap[boneName])

\* facade.getDisplay()
getDisplay == armatureDisplay

\* bone.getWorldTip()
getWorldTip(bone) ==
  Vec(bone.worldTransform.tx + bone.worldTransform.a * bone.length,
      bone.worldTransform.ty + bone.worldTransform.b * bone.length)

\* The drawing commands of display._drawBone(ctx, bone), one record for the
\* line, the joint and the label of a bone: the bone, then its children in list
\* order.  The result is [ok, commands]; ok is FALSE when the recursion does not
\* end.
RECURSIVE drawBone(_, _, _)
RECURSIVE DrawChildren(_, _, _, _)
drawBone(bones, name, depth) ==
  IF name = null THEN [ok |-> TRUE, commands |-> << >>]
  ELSE IF depth > Cardinality(DOMAIN bones) THEN [ok |-> FALSE, commands |-> << >>]
  ELSE LET bone == bones[name]
           line == [name |-> bone.name,
                    strokeStyle |-> IF bone.parent # null THEN "boneColor" ELSE "rootColor",
                    origin |-> Vec(bone.worldTransform.tx, bone.worldTransform.ty),
                    tip |-> getWorldTip(bone)]
           rest == DrawChildren(bones, bone.children, 1, depth)
       IN  [ok |-> rest.ok, commands |-> <<line>> \o rest.commands]
DrawChildren(bones, children, i, depth) ==
  IF i > Len(children) THEN [ok |-> TRUE, commands |-> << >>]
  ELSE LET first == drawBone(bones, children[i], depth + 1)
           rest  == DrawChildren(bones, children, i + 1, depth)
       IN  [ok |-> first.ok /\ rest.ok, commands |-> first.commands \o rest.commands]

\* the drawing commands of display.draw(ctx): translate, scale, then the bones
Drawing ==
  [translate |-> Vec(armatureDisplay[1].x, armatureDisplay[1].y),
   scale |-> Vec(armatureDisplay[1].scaleX, armatureDisplay[1].scaleY),
   bones |-> drawBone(boneMap, root, 1).commands]

\* getDisplay().draw(ctx), on a context that takes every command
draw ==
  /\ armatureDisplay # None
  /\ lastCall' = Call("draw", <<Drawing>>)
  /\ UNCHANGED <<boneMap, animations, cursor, rig, sumDt>>

\* facade.getBone(boneName), as a call
GetBone(boneName) ==
  /\ lastCall' = Call("getBone", <<boneName, getBone(boneName)>>)
  /\ UNCHANGED <<boneMap, animations, cursor, rig, sumDt>>

\* armature.getAllBones(), called on the armature of the facade; the bones are
\* given without their order
GetAllBones ==
  /\ loaded
  /\ lastCall' = Call("getAllBones", <<{boneMap[name] : name \in DOMAIN boneMap}>>)
  /\ UNCHANGED <<boneMap, animations, cursor, rig, sumDt>>

\* a bone and a clip added to the armature of the facade after it was loaded:
\* a bone of a name that no description has, a second clip under a declared name
AddedBone == "tail"
AddedClip == <<"idle", 2>>

\* the descriptions loaded in this specification
FacadeSkeletons == {1, 8, 9, 10, 11}

NextFacade ==
  \/ \E id \in FacadeSkeletons : loadArmature(id)
  \/ \E name \in {"idle", "none"} : playAnimation(name, 1)
  \/ \E name \in {"idle", null} : stopAnimation(name)
  \/ update(1)
  \/ updateWorldTransforms
  \/ \E name \in {"arm", "nobody"} : setBoneRotation(name, 180)
  \/ \E name \in {"arm", "nobody"} : setBonePosition(name, 6, 18)
  \/ \E name \in {"arm", "nobody"} : setBoneScale(name, 2, 3)
  \/ setPosition(6, 12)
  \/ setScale(2, 2)
  \/ draw

SpecFacade == InitRig /\ [][NextFacade]_vars

\* the facade, and calls made on the armature it holds
NextHeld ==
  \/ NextFacade
  \/ \E opts \in BoneOpts : loaded /\ addBone(AddedBone, opts) /\ UNCHANGED rig
  \/ loaded /\ addAnimation(AddedClip[1], AddedClip[2]) /\ UNCHANGED rig
  \/ GetBone("arm")
  \/ GetAllBones

SpecHeld == InitRig /\ [][NextHeld]_vars

----------------------------------------------------------------------------
(* Poses set by hand while a clip plays *)

\* the description whose bones are posed by hand, and the bones posed
ManualSkeletons == {13}
ManualNames == {"root", "arm"}

NextManual ==
  \/ \E id \in ManualSkeletons : loadArmature(id)
  \/ \E name \in ClipNames : playAnimation(name, 1)
  \/ stopAnimation(null)
  \/ update(1)
  \/ \E name \in ManualNames : setBoneRotation(name, 180)
  \/ \E name \in ManualNames : setBonePosition(name, 6, 18)
  \/ \E name \in ManualNames : setBoneScale(name, 2, 3)

SpecManual == InitRig /\ [][NextManual]_vars

----------------------------------------------------------------------------

(* WFLAnimator: the controller's calls on the rigging *)

\* the cursor of the armature, as one value
Cursor ==
  [currentAnimation |-> currentAnimation,
   currentAnimationName |-> currentAnimationName,
   animationTime |-> animationTime,
   animationPlayTimes |-> animationPlayTimes,
   animationLoopCount |-> animationLoopCount,
   isPlaying |-> isPlaying,
   sumDt |-> sumDt]

\* Armature.stop that ignores the name it is given, on a cursor
Stop_anyName(c, name) ==
  [c EXCEPT !.isPlaying = FALSE,
            !.currentAnimation = NoAnim,
            !.currentAnimationName = null,
            !.animationTime = 0,
            !.animationLoopCount = 0,
            !.sumDt = 0]

\* Armature.play(name, playTimes), on a cursor
Play(c, name, playTimes) ==
  LET anim == MapGet(animations, name, NoAnim) IN
  IF anim = NoAnim
    THEN c
    ELSE [c EXCEPT !.currentAnimation = anim,
                   !.currentAnimationName = name,
                   !.animationTime = 0,
                   !.animationPlayTimes = playTimes,
                   !.animationLoopCount = 0,
                   !.isPlaying = TRUE,
                   !.sumDt = 0]

\* Armature.stop(name), on a cursor
Stop(c, name) ==
  IF Falsy(name) \/ c.currentAnimationName = name
    THEN [c EXCEPT !.isPlaying = FALSE,
                   !.currentAnimation = NoAnim,
                   !.currentAnimationName = null,
                   !.animationTime = 0,
                   !.animationLoopCount = 0,
                   !.sumDt = 0]
    ELSE c

\* rigging.playAnimation(animationName, times) and rigging.stopAnimation(name),
\* on a cursor: nothing without an armature
PlayAnimation(c, animationName, times) == IF loaded THEN Play(c, animationName, times) ELSE c
StopAnimation(c, animationName) == IF loaded THEN Stop(c, animationName) ELSE c

\* a call of the controller on the rigging; a play without `times` has the
\* default of playAnimation, -1
PlayCall(name, times) == [op |-> "playAnimation", name |-> name, times |-> times]
StopCall(name) == [op |-> "stopAnimation", name |-> name, times |-> 0]

\* the cursor after a list of calls, made in order
RECURSIVE AfterCalls(_, _, _)
AfterCalls(c, calls, i) ==
  IF i > Len(calls) THEN c
  ELSE AfterCalls(IF calls[i].op = "playAnimation"
                    THEN PlayAnimation(c, calls[i].name, calls[i].times)
                    ELSE StopAnimation(c, calls[i].name),
                  calls, i + 1)

\* a handler of the controller: parameter `name` takes `value` (none for a
\* state change) and the handler makes `calls` on the rigging.  The event the
\* handler emits on the event bus afterwards is not part of the state.
Handler(op, value, calls) ==
  LET c == AfterCalls(Cursor, calls, 1) IN
  /\ lastCall' = Call(op, <<value, calls>>)
  /\ currentAnimation' = c.currentAnimation
  /\ currentAnimationName' = c.currentAnimationName
  /\ animationTime' = c.animationTime
  /\ animationPlayTimes' = c.animationPlayTimes
  /\ animationLoopCount' = c.animationLoopCount
  /\ isPlaying' = c.isPlaying
  /\ sumDt' = c.sumDt
  /\ UNCHANGED <<animations, root, loaded, armatureDisplay>>

mouthAnimations ==
  <<"mouth_closed", "mouth_a", "mouth_e", "mouth_i", "mouth_o", "mouth_u", "mouth_f">>
eyeAnimations == <<"eyes_open", "eyes_closed", "eyes_half", "eyes_squint", "eyes_wide">>

\* parameters.set('mouthState', value) and its listener
setMouthState(value) ==
  /\ parameters' = [parameters EXCEPT !.mouthState = value]
  /\ Handler("mouthState", value,
             IF value >= 0 /\ value < Len(mouthAnimations)
               THEN << PlayCall(mouthAnimations[value + 1], -1) >>
               ELSE << >>)
  /\ UNCHANGED boneMap

\* parameters.set('eyeState', value) and its listener
setEyeState(value) ==
  /\ parameters' = [parameters EXCEPT !.eyeState = value]
  /\ Handler("eyeState", value,
             IF value >= 0 /\ value < Len(eyeAnimations)
               THEN << PlayCall(eyeAnimations[value + 1], -1) >>
               ELSE << >>)
  /\ UNCHANGED boneMap

\* parameters.set('isTalking', value) and its listener
setTalking(value) ==
  /\ parameters' = [parameters EXCEPT !.isTalking = value]
  /\ Handler("isTalking", value,
             IF value THEN << PlayCall("talking", -1) >> ELSE << StopCall("talking") >>)
  /\ UNCHANGED boneMap

\* parameters.set('headTurn', value) and its listener, which turns the head
\* bone by rigging.setBoneRotation('head', value)
setHeadTurn(value) ==
  /\ parameters' = [parameters EXCEPT !.headTurn = value]
  /\ Handler("headTurn", value, << >>)
  /\ boneMap' = IF loaded /\ "head" \in DOMAIN boneMap
                  THEN [boneMap EXCEPT !["head"].rotation = (value * HalfTurn) \div 180]
                  ELSE boneMap

\* stateMachine.onStateChange, with the animations of the new state
onStateChange(stateAnimations) ==
  /\ Handler("onStateChange", null,
             [i \in DOMAIN stateAnimations |-> PlayCall(stateAnimations[i], -1)])
  /\ UNCHANGED <<boneMap, parameters>>

\* the animation lists of the states of the state machine
StateAnimations == {<< >>, <<"idle", "talking">>, <<"talking", "none">>}

ControllerSkeletons == {14}

NextController ==
  \/ \E id \in ControllerSkeletons : loadArmature(id)
  \/ \E value \in {0, 1, 7} : setMouthState(value)
  \/ \E value \in {-1, 1} : setEyeState(value)
  \/ \E value \in BOOLEAN : setTalking(value)
  \/ setHeadTurn(90)
  \/ \E stateAnimations \in StateAnimations : onStateChange(stateAnimations)
  \/ update(1)

SpecController == InitRig /\ [][NextController]_vars

----------------------------------------------------------------------------

(* Bones linked by hand *)

\* longest children list
MaxChildren == 3

\* the bones that addChild and removeChild are called on, and the bones they
\* are given
ParentNames == {"p1", "p2"}
ChildNames == {"c", "d"}

DefaultOpts ==
  [x |-> None, y |-> None, rotation |-> None, scaleX |-> None, scaleY |-> None, length |-> None]

\* four bones as constructed, outside any armature
InitBones ==
  /\ boneMap = [name \in ParentNames \cup ChildNames |-> Bone(name, DefaultOpts)]
  /\ animations = << >>
  /\ currentAnimation = NoAnim
  /\ currentAnimationName = null
  /\ animationTime = 0
  /\ animationPlayTimes = -1
  /\ animationLoopCount = 0
  /\ isPlaying = FALSE
  /\ root = null
  /\ loaded = FALSE
  /\ armatureDisplay = None
  /\ parameters = DefaultParameters
  /\ lastCall = [op |-> "new", args |-> << >>, from |-> "Idle"]
  /\ sumDt = 0

\* bone.addChild(child)
AddChild(bone, child) ==
  /\ Len(boneMap[bone].children) < MaxChildren
  /\ boneMap' = addChild(boneMap, bone, child)
  /\ lastCall' = Call("addChild", <<bone, child>>)
  /\ UNCHANGED <<animations, cursor, rig, sumDt>>

\* bone.removeChild(child)
RemoveChild(bone, child) ==
  /\ boneMap' = removeChild(boneMap, bone, child)
  /\ lastCall' = Call("removeChild", <<bone, child>>)
  /\ UNCHANGED <<animations, cursor, rig, sumDt>>

NextBones ==
  \/ \E bone \in ParentNames, child \in ChildNames : AddChild(bone, child)
  \/ \E bone \in ParentNames, child \in ChildNames : RemoveChild(bone, child)

SpecBones == InitBones /\ [][NextBones]_vars

----------------------------------------------------------------------------
(* Properties of the playback cursor *)

\* duration of the current clip (when there is one)
Duration == AnimPool[currentAnimation].duration

\* C1: play(n, r) with n a registered clip name, from any playback state,
\* leaves currentAnimation = the clip registered under n, currentAnimationName
\* = n, animationTime = 0, animationLoopCount = 0, animationPlayTimes = r and
\* isPlaying = TRUE.
C1_PlayStartsClip ==
  [][ (lastCall'.op = "play" /\ lastCall'.args[1] \in DOMAIN animations)
      => /\ currentAnimation' = animations[lastCall'.args[1]]
         /\ currentAnimationName' = lastCall'.args[1]
         /\ animationTime' = 0
         /\ animationLoopCount' = 0
         /\ animationPlayTimes' = lastCall'.args[2]
         /\ isPlaying' = TRUE ]_vars

\* a clip that had stopped at its end is played again, with a finite repeat count
C1_Witness ==
  /\ lastCall.op = "play" /\ lastCall.from = "Stopped"
  /\ lastCall.args[1] \in DOMAIN animations
  /\ currentAnimationName = lastCall.args[1]
  /\ animationPlayTimes = MaxPlayTimes
  /\ isPlaying /\ animationTime = 0 /\ animationLoopCount = 0

\* C2: play(n, r) with n not a registered clip name leaves the six cursor
\* fields unchanged.
C2_PlayUnknownIsNoOp ==
  [][ (lastCall'.op = "play" /\ lastCall'.args[1] \notin DOMAIN animations)
      => UNCHANGED cursor ]_vars

\* an unregistered name was played while a clip was under way, and it still is
C2_Witness ==
  /\ lastCall.op = "play" /\ lastCall.from = "Playing"
  /\ lastCall.args[1] = "none"
  /\ isPlaying /\ animationTime > 0 /\ currentAnimation # NoAnim

\* C3: under play(n, -1) on a clip of duration D > 0, isPlaying stays TRUE and
\* animationTime = (sum of the dt since play) mod D after every advanceTime.
C3_InfiniteLoopWraps ==
  (currentAnimation # NoAnim /\ animationPlayTimes = -1 /\ Duration > 0)
  => (isPlaying /\ animationTime = sumDt % Duration)

\* an infinite loop that has wrapped at least twice and stands inside the clip
C3_Witness ==
  /\ lastCall.op = "advanceTime"
  /\ currentAnimation # NoAnim /\ animationPlayTimes = -1 /\ Duration > 0
  /\ sumDt > 2 * Duration /\ animationLoopCount >= 2 /\ animationTime > 0 /\ isPlaying

\* C4: under play(n, 1) on a clip of duration D > 0, isPlaying holds and
\* animationTime is the sum of the dt while that sum is < D; once the sum is
\* >= D, animationTime = D and isPlaying = FALSE.
C4_PlayOnceClamps ==
  (currentAnimation # NoAnim /\ animationPlayTimes = 1 /\ Duration > 0)
  => IF sumDt < Duration
       THEN isPlaying /\ animationTime = sumDt
       ELSE ~isPlaying /\ animationTime = Duration

\* a play-once clip stopped by an advanceTime that overshot its end
C4_Witness ==
  /\ lastCall.op = "advanceTime" /\ lastCall.from = "Playing"
  /\ currentAnimation # NoAnim /\ animationPlayTimes = 1 /\ Duration > 0
  /\ sumDt > Duration /\ ~isPlaying /\ animationTime = Duration

\* C5: under play(n, 0) on a clip of duration D > 0, once the sum of the dt
\* since play is >= D, animationTime = D and isPlaying = FALSE.
C5_ZeroPlaysOnce ==
  (currentAnimation # NoAnim /\ animationPlayTimes = 0 /\ Duration > 0 /\ sumDt >= Duration)
  => (~isPlaying /\ animationTime = Duration)

\* C6: under play(n, N) with N > 1 on a clip of duration D > 0, isPlaying is
\* FALSE iff the sum of the dt since play is >= N * D, animationTime = D
\* then, and before that animationLoopCount = floor(sum of dt / D).
C6_StopsAfterNTraversals ==
  (currentAnimation # NoAnim /\ animationPlayTimes > 1 /\ Duration > 0)
  => /\ ~isPlaying <=> sumDt >= animationPlayTimes * Duration
     /\ ~isPlaying => animationTime = Duration
     /\ isPlaying => animationLoopCount = sumDt \div Duration

PoseIsFinal(bone, kf) ==
  LET n       == Len(kf)
      Both(c) == kf[n][c] # None /\ (n = 1 \/ kf[n - 1][c] # None)
  IN  /\ Both("rotation") => bone.rotation = kf[n].rotation[1]
      /\ Both("position") => bone.position = kf[n].position[1]
      /\ Both("scale") => bone.scale = kf[n].scale[1]

\* the step is the advanceTime call that uses up the repeat count
Exhausting == lastCall'.op = "advanceTime" /\ isPlaying /\ ~isPlaying'

\* track i of the current clip targets a registered bone and ends at the clip end
EndsAtClipEnd(i) ==
  LET track == AnimPool[currentAnimation].tracks[i]
      kf    == track.keyframes
  IN  /\ track.boneName \in DOMAIN boneMap
      /\ Len(kf) > 0
      /\ kf[Len(kf)].time = Duration

\* C8: at the advanceTime call that exhausts the repeat count, every bone
\* targeted by a track whose final keyframe is at the clip duration has each
\* channel defined on that keyframe and on its predecessor equal to the final
\* keyframe's value.
C8_FinalPoseOfEveryTrack ==
  [][ Exhausting
      => \A i \in 1..Len(AnimPool[currentAnimation].tracks) :
           LET track == AnimPool[currentAnimation].tracks[i]
           IN  EndsAtClipEnd(i) => PoseIsFinal(boneMap'[track.boneName], track.keyframes) ]_vars

\* the final keyframe of track i is the only one at its time, and no later
\* track of the clip targets the same bone
SingleFinalAndLastForBone(i) ==
  LET tracks == AnimPool[currentAnimation].tracks
      kf     == tracks[i].keyframes
  IN  /\ Len(kf) = 1 \/ kf[Len(kf) - 1].time < kf[Len(kf)].time
      /\ \A j \in (i + 1)..Len(tracks) : tracks[j].boneName # tracks[i].boneName

\* C8, amended: the same, for the tracks whose final keyframe is the only
\* keyframe at the clip duration and whose bone no later track of the clip
\* targets.
C8_FinalPoseAtExhaustion ==
  [][ Exhausting
      => \A i \in 1..Len(AnimPool[currentAnimation].tracks) :
           LET track == AnimPool[currentAnimation].tracks[i]
           IN  (EndsAtClipEnd(i) /\ SingleFinalAndLastForBone(i))
               => PoseIsFinal(boneMap'[track.boneName], track.keyframes) ]_vars

\* clip 1 was stopped by an advanceTime that overshot its end, and the bone
\* of its track has the rotation of the final keyframe
C8_Witness ==
  /\ lastCall.op = "advanceTime" /\ lastCall.from = "Playing"
  /\ StoppedTerminal /\ currentAnimation = 1 /\ sumDt > Duration
  /\ "root" \in DOMAIN boneMap
  /\ boneMap["root"].rotation = 6

\* C9: stop(name) with name absent or equal to currentAnimationName, called
\* from Playing or Stopped-Terminal, leaves currentAnimation and
\* currentAnimationName null, animationTime = 0, animationLoopCount = 0 and
\* isPlaying = FALSE; an advanceTime that follows changes nothing.
C9_StopClearsCursor ==
  [][ /\ ( /\ lastCall'.op = "stop" /\ ~Idle
           /\ lastCall'.args[1] = null \/ lastCall'.args[1] = currentAnimationName )
         => /\ currentAnimation' = NoAnim
            /\ currentAnimationName' = null
            /\ animationTime' = 0
            /\ animationLoopCount' = 0
            /\ isPlaying' = FALSE
      /\ ( /\ lastCall.op = "stop" /\ lastCall.from # "Idle" /\ Idle
           /\ lastCall'.op = "advanceTime" )
         => UNCHANGED <<cursor, boneMap>> ]_vars

\* stop was called with the name of the current clip, which had stopped at
\* its end, and the cursor is cleared
C9_Witness ==
  /\ lastCall.op = "stop" /\ lastCall.from = "Stopped"
  /\ lastCall.args[1] = "idle"
  /\ Idle /\ currentAnimationName = null
  /\ animationTime = 0 /\ animationLoopCount = 0 /\ ~isPlaying

C11_AdvanceTimeIdleIsNoOp ==
  [][ (lastCall'.op = "advanceTime" /\ (~isPlaying \/ currentAnimation = NoAnim))
      => UNCHANGED <<cursor, boneMap>> ]_vars

\* advanceTime was called on an armature with both bones and no current clip
C11_Witness ==
  /\ lastCall.op = "advanceTime" /\ lastCall.from = "Idle"
  /\ Idle /\ ~isPlaying
  /\ DOMAIN boneMap = BoneNames /\ DOMAIN animations = ClipNames

----------------------------------------------------------------------------
(* Properties of keyframe sampling *)

\* the track and the time of the sample, and the bone after it
SampledTrack == lastCall.args[1].keyframes
SampledTime == lastCall.args[2]
Sampled == lastCall.op = "applyAnimation"

\* the first adjacent pair of keyframes with prev.time <= time <= next.time
Brackets(kf, time, i) == kf[i].time <= time /\ time <= kf[i + 1].time
HasPair(kf, time) == \E i \in 1..(Len(kf) - 1) : Brackets(kf, time, i)
FirstPair(kf, time) ==
  CHOOSE i \in 1..(Len(kf) - 1) :
    Brackets(kf, time, i) /\ \A j \in 1..(i - 1) : ~Brackets(kf, time, j)

\* prev + (next - prev) * (time - prev.time) / (next.time - prev.time), and
\* prev when the two times are equal
Between(p, n, pTime, nTime, time) ==
  IF nTime - pTime > 0 THEN p + ((n - p) * (time - pTime)) \div (nTime - pTime) ELSE p

\* the bone has the values interpolated between keyframes p and n on every
\* channel that both define
InterpolatedBetween(bone, p, n, time) ==
  /\ (p.rotation # None /\ n.rotation # None)
       => bone.rotation = Between(p.rotation[1], n.rotation[1], p.time, n.time, time)
  /\ (p.position # None /\ n.position # None)
       => /\ bone.position.x = Between(p.position[1].x, n.position[1].x, p.time, n.time, time)
          /\ bone.position.y = Between(p.position[1].y, n.position[1].y, p.time, n.time, time)
  /\ (p.scale # None /\ n.scale # None)
       => /\ bone.scale.x = Between(p.scale[1].x, n.scale[1].x, p.time, n.time, time)
          /\ bone.scale.y = Between(p.scale[1].y, n.scale[1].y, p.time, n.time, time)

\* C12: for keyframes in ascending time order and a time within
\* [first.time, last.time], the sample uses the first adjacent pair (prev, next)
\* with prev.time <= time <= next.time and sets each channel both define to
\* prev + (next - prev) * (time - prev.time) / (next.time - prev.time), with
\* factor 0 when the two times are equal; for a time before the first keyframe
\* it applies the first keyframe's values.
C12_SamplesFirstBracketingPair ==
  Sampled =>
    LET kf == SampledTrack
        time == SampledTime
        bone == boneMap["root"]
    IN  /\ (kf[1].time <= time /\ time <= kf[Len(kf)].time /\ HasPair(kf, time))
             => InterpolatedBetween(bone, kf[FirstPair(kf, time)],
                                    kf[FirstPair(kf, time) + 1], time)
        /\ time < kf[1].time
             => InterpolatedBetween(bone, kf[1], kf[1], kf[1].time)

\* a sample strictly between two keyframes with different values, of which the
\* pair is not the first of the track, on the rotation channel
C12_Witness ==
  /\ Sampled
  /\ Len(SampledTrack) = 3
  /\ SampledTrack[2].time < SampledTime /\ SampledTime < SampledTrack[3].time
  /\ SampledTrack[2].rotation # None /\ SampledTrack[3].rotation # None
  /\ boneMap["root"].rotation # SampledTrack[2].rotation[1]
  /\ boneMap["root"].rotation # SampledTrack[3].rotation[1]
  /\ boneMap["root"].rotation # SampleBone.rotation

\* the keyframes that bracket the time: the first adjacent pair around it; the
\* first keyframe alone for a time before it; the first and the last keyframe
\* for a time that no adjacent pair is around
BracketPrev(kf, time) == IF HasPair(kf, time) THEN kf[FirstPair(kf, time)] ELSE kf[1]
BracketNext(kf, time) ==
  IF HasPair(kf, time) THEN kf[FirstPair(kf, time) + 1]
  ELSE IF time < kf[1].time THEN kf[1] ELSE kf[Len(kf)]

\* C13: channels (rotation, position, scale) are sampled one by one and
\* sparsely: when either bracketing keyframe lacks a channel, the bone keeps
\* the value it had on that channel.
C13_MissingChannelKeepsValue ==
  Sampled =>
    LET p == BracketPrev(SampledTrack, SampledTime)
        n == BracketNext(SampledTrack, SampledTime)
        bone == boneMap["root"]
    IN  /\ (p.rotation = None \/ n.rotation = None) => bone.rotation = SampleBone.rotation
        /\ (p.position = None \/ n.position = None) => bone.position = SampleBone.position
        /\ (p.scale = None \/ n.scale = None) => bone.scale = SampleBone.scale

\* a sample between two keyframes of which one lacks the rotation and the
\* other the scale, while both define the position: the position is sampled,
\* the rotation and the scale are kept
C13_Witness ==
  /\ Sampled
  /\ Len(SampledTrack) = 2
  /\ SampledTrack[1].time < SampledTime /\ SampledTime < SampledTrack[2].time
  /\ SampledTrack[1].rotation = None /\ SampledTrack[2].rotation # None
  /\ SampledTrack[1].scale # None /\ SampledTrack[2].scale = None
  /\ SampledTrack[1].position # None /\ SampledTrack[2].position # None
  /\ boneMap["root"].position # SampleBone.position
  /\ boneMap["root"].rotation = SampleBone.rotation
  /\ boneMap["root"].scale = SampleBone.scale

----------------------------------------------------------------------------
(* Properties of the bone tree *)

Identity == Matrix(1, 0, 0, 1, 0, 0)

\* the bones reached from a set of bones through children lists
RECURSIVE Reach(_, _)
Reach(bones, set) ==
  LET more == set \cup UNION {{bones[n].children[i] : i \in DOMAIN bones[n].children} : n \in set}
  IN  IF more = set THEN set ELSE Reach(bones, more)
ChildrenOf(bones, n) == {bones[n].children[i] : i \in DOMAIN bones[n].children}
Descendants(bones, n) == Reach(bones, ChildrenOf(bones, n))

\* the bones reached from a bone through parent references, itself excluded
RECURSIVE ReachUp(_, _)
ReachUp(bones, set) ==
  LET more == set \cup ({bones[n].parent : n \in set} \ {null})
  IN  IF more = set THEN set ELSE ReachUp(bones, more)
Ancestors(bones, n) == IF bones[n].parent = null THEN {} ELSE ReachUp(bones, {bones[n].parent})

\* how often a bone occurs in the children list of another
Occurrences(bones, p, n) == Cardinality({i \in DOMAIN bones[p].children : bones[p].children[i] = n})
RECURSIVE SumOccurrences(_, _, _)
SumOccurrences(bones, ps, n) ==
  IF ps = {} THEN 0
  ELSE LET p == CHOOSE q \in ps : TRUE
       IN  Occurrences(bones, p, n) + SumOccurrences(bones, ps \ {p}, n)

\* The bone graph is a tree under theRoot: no bone is its own ancestor or
\* descendant, every bone but the root has a parent, which lists it once, and
\* no bone is listed twice over all children lists.
IsTree(bones, theRoot) ==
  /\ \A n \in DOMAIN bones : n \notin Ancestors(bones, n) /\ n \notin Descendants(bones, n)
  /\ \A n \in DOMAIN bones \ {theRoot} : bones[n].parent # null
  /\ \A n \in DOMAIN bones :
       /\ SumOccurrences(bones, DOMAIN bones, n) <= 1
       /\ bones[n].parent # null => Occurrences(bones, bones[n].parent, n) = 1

\* the last call ended with the root's computeWorldTransform
Computed ==
  /\ loaded /\ root # null
  /\ \/ lastCall.op \in {"update", "updateWorldTransforms"}
     \/ lastCall.op = "loadArmature" /\ lastCall.args[2] = "returned"

\* sum of the local translations of a bone and its ancestors
RECURSIVE ChainPosition(_, _)
ChainPosition(bones, n) ==
  IF bones[n].parent = null THEN bones[n].position
  ELSE LET up == ChainPosition(bones, bones[n].parent)
       IN  Vec(up.x + bones[n].position.x, up.y + bones[n].position.y)

Unrotated(bone) == bone.rotation = 0 /\ bone.scale = Vec(1, 1)

\* the image of a point under a 2x3 matrix
Apply(m, v) == Vec(m.a * v.x + m.c * v.y + m.tx, m.b * v.x + m.d * v.y + m.ty)

\* a point turned by a rotation that is a multiple of a quarter turn
Turned(v, rotation) ==
  CASE (rotation \div QuarterTurn) % 4 = 0 -> v
    [] (rotation \div QuarterTurn) % 4 = 1 -> Vec(-v.y, v.x)
    [] (rotation \div QuarterTurn) % 4 = 2 -> Vec(-v.x, -v.y)
    [] OTHER -> Vec(v.y, -v.x)

\* the image of a point under the local transform of a bone: scaled, turned,
\* then moved
LocalPoint(bone, v) ==
  LET t == Turned(Vec(bone.scale.x * v.x, bone.scale.y * v.y), bone.rotation)
  IN  Vec(t.x + bone.position.x, t.y + bone.position.y)

\* an affine map of the plane is given by the images of these three points
Basis == {Vec(0, 0), Vec(1, 0), Vec(0, 1)}

\* C14: after root.computeWorldTransform() on a tree, the world matrix of the
\* root is its local matrix and the world matrix of every descendant is its
\* parent's world matrix composed with its own local matrix; when all ancestors
\* of a bone have rotation 0 and scale 1, its world translation is the sum of
\* the local translations along its chain to the root.
C14_WorldIsParentWorldTimesLocal ==
  (Computed /\ IsTree(boneMap, root)) =>
    /\ \A v \in Basis : Apply(boneMap[root].worldTransform, v) = LocalPoint(boneMap[root], v)
    /\ \A n \in Descendants(boneMap, root) :
         /\ \A v \in Basis :
              Apply(boneMap[n].worldTransform, v) =
                Apply(boneMap[boneMap[n].parent].worldTransform, LocalPoint(boneMap[n], v))
         /\ (\A p \in Ancestors(boneMap, n) : Unrotated(boneMap[p]))
              => /\ boneMap[n].worldTransform.tx = ChainPosition(boneMap, n).x
                 /\ boneMap[n].worldTransform.ty = ChainPosition(boneMap, n).y

\* a chain of three bones, all rotated and one scaled, after an update that
\* sampled a clip: the world matrix of the last bone is neither its local matrix
\* nor the identity
C14_Witness ==
  /\ Computed /\ lastCall.op = "update" /\ lastCall.from = "Playing"
  /\ IsTree(boneMap, root)
  /\ "hand" \in Descendants(boneMap, "arm") /\ "arm" \in Descendants(boneMap, root)
  /\ boneMap["hand"].worldTransform # LocalMatrix(boneMap["hand"])
  /\ boneMap["hand"].worldTransform # Identity
  /\ boneMap["arm"].scale.x = 2 /\ boneMap["arm"].rotation = 6
  /\ boneMap[root].rotation = 12

\* C15: updateWorldTransforms is idempotent: called twice in a row, with no
\* advanceTime and no change to a bone in between, it leaves every bone with
\* the same world transform after the second call as after the first.
C15_UpdateWorldTransformsIdempotent ==
  [][ (lastCall.op = "updateWorldTransforms" /\ lastCall'.op = "updateWorldTransforms")
      => boneMap' = boneMap ]_vars

\* updateWorldTransforms was called on a chain after a setter had moved the arm
\* and a clip had turned the root: the call changed the world transforms
C15_Witness ==
  /\ lastCall.op = "updateWorldTransforms" /\ loaded /\ root = "root"
  /\ boneMap["arm"].parent = "root" /\ boneMap["arm"].position = Vec(6, 18)
  /\ boneMap["root"].rotation = 12
  /\ \A v \in Basis : Apply(boneMap["arm"].worldTransform, v) =
                        Apply(boneMap["root"].worldTransform, LocalPoint(boneMap["arm"], v))

\* the image of a point under the local transforms of a bone and of its
\* ancestors, innermost first; a chain of parents is followed through at most
\* as many bones as there are
RECURSIVE ChainPoint(_, _, _, _)
ChainPoint(bones, n, v, depth) ==
  IF bones[n].parent = null \/ depth >= Cardinality(DOMAIN bones)
    THEN LocalPoint(bones[n], v)
    ELSE ChainPoint(bones, bones[n].parent, LocalPoint(bones[n], v), depth + 1)

\* the world transform of a bone is the composition of the local transforms
\* of the bone and its ancestors, as they are now
WorldIsChain(bones, n) ==
  \A v \in Basis : Apply(bones[n].worldTransform, v) = ChainPoint(bones, n, v, 1)

\* C16: within one update(dt) the time advance and the sampling are complete
\* before any world transform is recomputed, and the world transform of a
\* parent is final before those of its children: when update returns, every
\* bone reachable from the root has a world transform equal to the composition
\* of the just sampled local transforms of itself and its ancestors.
C16_UpdateLeavesWorldOfChain ==
  (lastCall.op = "update" /\ loaded /\ root # null) =>
    \A n \in {root} \cup Descendants(boneMap, root) : WorldIsChain(boneMap, n)

----------------------------------------------------------------------------
(* Properties of the loader *)

\* loadArmature has just returned; the description it was given
Loaded == lastCall.op = "loadArmature" /\ lastCall.args[2] = "returned"
LoadedBones == Nullish(Skeletons[lastCall.args[1]].bones, << >>)

UniqueNames(list) == \A i, j \in DOMAIN list : list[i].name = list[j].name => i = j
Names(list) == {list[i].name : i \in DOMAIN list}

\* C17: for a description with unique bone names, after loadArmature every
\* entry is registered under its name, and every entry whose declared parent
\* names a bone of the description has that bone as bone.parent and occurs
\* exactly once in that bone's children list, whether the parent is declared
\* before or after the child.
C17_LoadLinksDeclaredParents ==
  (Loaded /\ UniqueNames(LoadedBones)) =>
    \A i \in DOMAIN LoadedBones :
      LET bd == LoadedBones[i] IN
      /\ bd.name \in DOMAIN boneMap
      /\ boneMap[bd.name].name = bd.name
      /\ bd.parent \in Names(LoadedBones)
           => /\ boneMap[bd.name].parent = bd.parent
              /\ Occurrences(boneMap, bd.parent, bd.name) = 1

\* a description that declares every child before its parent was loaded, and
\* the chain hand - arm - root is linked
C17_Witness ==
  /\ Loaded /\ UniqueNames(LoadedBones) /\ Len(LoadedBones) = 3
  /\ LoadedBones[1].parent = LoadedBones[2].name
  /\ LoadedBones[2].parent = LoadedBones[3].name
  /\ boneMap["hand"].parent = "arm" /\ boneMap["arm"].parent = "root"
  /\ boneMap["root"].children = <<"arm">> /\ boneMap["arm"].children = <<"hand">>

\* the name of the first entry of the list, in list order, that is in the set
\* of indices, or null when there is none
FirstOf(list, indices) ==
  IF indices = {} THEN null
  ELSE list[CHOOSE i \in indices : \A j \in indices : i <= j].name

\* C18: after loadArmature the root is the first bone, in list order, whose
\* entry declares no parent; a bone whose entry declares a parent, even one
\* that matches no bone, is never the root, and there is no root when every
\* entry declares a parent.
C18_RootIsFirstWithoutDeclaredParent ==
  Loaded =>
    root = FirstOf(LoadedBones, {i \in DOMAIN LoadedBones : LoadedBones[i].parent = null})

\* no entry of the name of the i-th entry declares a parent that names a bone
\* of the description
Unlinked(list, i) ==
  \A j \in DOMAIN list :
    list[j].name = list[i].name => (Falsy(list[j].parent) \/ list[j].parent \notin Names(list))

\* C18, amended: after loadArmature the root is the first bone, in list
\* order, that got no parent: no entry of its name declares a parent that names
\* a bone of the description.  There is no root exactly when every bone got a
\* parent.
C18_RootIsFirstUnlinked ==
  Loaded =>
    /\ root = FirstOf(LoadedBones, {i \in DOMAIN LoadedBones : Unlinked(LoadedBones, i)})
    /\ root = null <=> \A n \in DOMAIN boneMap : boneMap[n].parent # null

\* a description in which every entry declares a parent was loaded, and the
\* first entry, whose parent names no bone, is the root
C18_Witness ==
  /\ Loaded /\ Len(LoadedBones) = 2
  /\ \A i \in DOMAIN LoadedBones : LoadedBones[i].parent # null
  /\ LoadedBones[1].parent \notin Names(LoadedBones)
  /\ root = LoadedBones[1].name
  /\ boneMap[root].children = <<LoadedBones[2].name>>

\* the bones without parent other than the root
Strays == {n \in DOMAIN boneMap : boneMap[n].parent = null /\ n # root}

Reached == IF root = null THEN {} ELSE {root} \cup Descendants(boneMap, root)

C20_LoadedGraphIsTree == Loaded => IsTree(boneMap, root)

----------------------------------------------------------------------------
(* Properties of the facade and its display *)

\* the armature that a description without bones leaves: no bone, no root, no
\* current clip
EmptyArmature ==
  /\ loaded
  /\ DOMAIN boneMap = {}
  /\ root = null
  /\ currentAnimation = NoAnim /\ currentAnimationName = null
  /\ animationTime = 0 /\ animationLoopCount = 0 /\ ~isPlaying

\* the calls C21 names, on the step that has just been taken: playAnimation
\* of a clip that is not declared, stopAnimation, update, draw
C21_Calls ==
  \/ lastCall'.op = "play" /\ lastCall'.args[1] \notin DOMAIN animations
  \/ lastCall'.op \in {"stop", "update", "draw"}

\* C21: loadArmature on a description without a `bones` list returns a display
\* and leaves an empty armature (no bone under any name, no root, Idle cursor);
\* on that armature playAnimation of an undeclared clip, stopAnimation, update
\* and draw end without fault (neither the update nor the drawing recursion
\* runs away) and change nothing of the armature, the cursor or the display.
C21_NoBonesListLoadsEmptyArmature ==
  [][ /\ (lastCall'.op = "loadArmature" /\ Skeletons[lastCall'.args[1]].bones = None)
           => /\ lastCall'.args[2] = "returned"
              /\ getDisplay' # None
              /\ EmptyArmature'
      /\ (EmptyArmature /\ C21_Calls)
           => /\ WorldTransforms(boneMap, root).ok
              /\ drawBone(boneMap, root, 1).ok
              /\ UNCHANGED <<boneMap, animations, cursor, rig>> ]_vars

\* C21 witness: an armature without bones has been drawn, and nothing was drawn
C21_Witness_EmptyArmatureDrawn ==
  /\ EmptyArmature
  /\ lastCall.op = "draw"
  /\ lastCall.args[1].bones = << >>

\* the names that getBone is asked for: the bones of the descriptions, and one
\* of none
QueryNames == {"root", "arm", "hand", "ghost", "nobody"}

\* the bone entries and the clip names of the description that the step loads
NewBones == Nullish(Skeletons[lastCall'.args[1]].bones, << >>)
NewClips ==
  LET entries == Nullish(Skeletons[lastCall'.args[1]].animations, << >>)
  IN  {entries[i][1] : i \in DOMAIN entries}

\* C22: a later loadArmature replaces armature and display in one step.  When
\* it returns, the cursor is Idle whatever was playing, getBone resolves
\* exactly the names of the new description and gives the bones of that
\* description (their local position is the declared one, not one set on the
\* armature that was replaced), only the clips of the new description are
\* registered, and getDisplay gives a new display of the armature that is now
\* held.  When it throws, armature, cursor and display all stay as they were.
C22_LaterLoadReplacesArmatureAndDisplay ==
  [][ (loaded /\ lastCall'.op = "loadArmature") =>
        IF lastCall'.args[2] = "returned"
          THEN /\ loaded'
               /\ currentAnimation' = NoAnim /\ currentAnimationName' = null
               /\ animationTime' = 0 /\ animationLoopCount' = 0 /\ ~isPlaying'
               /\ \A name \in QueryNames :
                    getBone(name)' # None <=> name \in Names(NewBones)
               /\ UniqueNames(NewBones) =>
                    \A name \in QueryNames, i \in DOMAIN NewBones :
                      NewBones[i].name = name =>
                        getBone(name)'[1].position
                          = Vec(Nullish(NewBones[i].x, 0), Nullish(NewBones[i].y, 0))
               /\ DOMAIN animations' = NewClips
               /\ getDisplay' = Some(ArmatureDisplay("held"))
          ELSE UNCHANGED <<boneMap, animations, cursor, rig>> ]_vars

\* C22 witness: a load has replaced an armature on which a clip was playing by
\* one of a description that declares no clip
C22_Witness_ReplacedWhilePlaying ==
  /\ lastCall.op = "loadArmature" /\ lastCall.args[2] = "returned"
  /\ lastCall.from = "Playing"
  /\ lastCall.args[1] = 11
  /\ armatureDisplay = Some(ArmatureDisplay("held"))

\* the armature fields and the display of a facade that holds neither
NothingHeld ==
  /\ ~loaded /\ armatureDisplay = None
  /\ boneMap = << >> /\ animations = << >> /\ root = null
  /\ currentAnimation = NoAnim /\ currentAnimationName = null
  /\ animationTime = 0 /\ animationPlayTimes = -1
  /\ animationLoopCount = 0 /\ ~isPlaying

\* C23: as long as the facade holds no armature it holds no display either,
\* getBone gives no bone for any name and getDisplay gives no display, and
\* every call other than loadArmature (playAnimation, stopAnimation, update,
\* the three bone setters, setPosition, setScale) returns and leaves the facade
\* as it was, however many such calls are made.
C23_CallsWithoutArmatureDoNothing ==
  [][ ~loaded =>
        /\ NothingHeld
        /\ \A name \in QueryNames : getBone(name) = None
        /\ getDisplay = None
        /\ lastCall'.op # "loadArmature" => (NothingHeld' /\ UNCHANGED <<cursor, rig>>) ]_vars

\* C23 witness: setScale has been called on a facade that holds no armature
C23_Witness_SetScaleWithoutArmature ==
  /\ ~loaded
  /\ lastCall.op = "setScale"

\* a bone setter has just been called on a loaded armature
SetterCalled(op) == loaded /\ lastCall'.op = op /\ lastCall'.args # << >>

\* the step changes no bone but `name`, and of that bone nothing but the local
\* field that `same` puts back
OnlyFieldChanged(name, same(_, _)) ==
  /\ DOMAIN boneMap' = DOMAIN boneMap
  /\ \A other \in DOMAIN boneMap \ {name} : boneMap'[other] = boneMap[other]
  /\ same(boneMap'[name], boneMap[name]) = boneMap[name]

SameRotation(bone, old) == [bone EXCEPT !.rotation = old.rotation]
SamePosition(bone, old) == [bone EXCEPT !.position = old.position]
SameScale(bone, old) == [bone EXCEPT !.scale = old.scale]

\* C24: on a loaded armature, setBoneRotation, setBonePosition and
\* setBoneScale with the name of a registered bone change that bone's rotation
\* (to degrees * pi / 180, which is degrees / 15 in the model's unit of 15
\* degrees), position or scale (to the given pair) and nothing else; with a
\* name that is not registered they change no bone.  In both cases the world
\* transform of every bone, every link, every other bone, the cursor and the
\* display are as before the call.
C24_SettersChangeOneLocalField ==
  [][ /\ SetterCalled("setBoneRotation") =>
           LET name == lastCall'.args[1] IN
           IF name \in DOMAIN boneMap
             THEN /\ OnlyFieldChanged(name, SameRotation)
                  /\ 15 * boneMap'[name].rotation = lastCall'.args[2]
             ELSE boneMap' = boneMap
      /\ SetterCalled("setBonePosition") =>
           LET name == lastCall'.args[1] IN
           IF name \in DOMAIN boneMap
             THEN /\ OnlyFieldChanged(name, SamePosition)
                  /\ boneMap'[name].position = [x |-> lastCall'.args[2], y |-> lastCall'.args[3]]
             ELSE boneMap' = boneMap
      /\ SetterCalled("setBoneScale") =>
           LET name == lastCall'.args[1] IN
           IF name \in DOMAIN boneMap
             THEN /\ OnlyFieldChanged(name, SameScale)
                  /\ boneMap'[name].scale = [x |-> lastCall'.args[2], y |-> lastCall'.args[3]]
             ELSE boneMap' = boneMap
      /\ (\E op \in {"setBoneRotation", "setBonePosition", "setBoneScale"} : SetterCalled(op))
           => UNCHANGED <<animations, cursor, rig>> ]_vars

\* C24 witness: setBoneRotation has turned a registered bone by half a turn,
\* and the world transforms are not yet those that an update computes
C24_Witness_RotationSetBeforeUpdate ==
  /\ loaded
  /\ lastCall.op = "setBoneRotation" /\ lastCall.args = <<"arm", 180>>
  /\ boneMap["arm"].rotation = HalfTurn
  /\ WorldTransforms(boneMap, root).bones # boneMap

----------------------------------------------------------------------------
(* Properties of addChild and removeChild *)

Elements(list) == {list[i] : i \in DOMAIN list}
Without(list, element) == SelectSeq(list, LAMBDA e : e # element)

\* C25: addChild does not detach the child from a parent it already had: after
\* p2.addChild(c), c.parent is p2 and c is the last of p2.children, and every
\* other bone p1 that had c among its children (after p1.addChild(c)) still
\* has it there, its children list being what it was.
C25_AddChildKeepsPreviousParentsList ==
  [][ lastCall'.op = "addChild" =>
        LET p2 == lastCall'.args[1]
            c  == lastCall'.args[2]
        IN  /\ boneMap'[c].parent = p2
            /\ boneMap'[p2].children = boneMap[p2].children \o <<c>>
            /\ \A p1 \in ParentNames \ {p2} :
                 c \in Elements(boneMap[p1].children) =>
                   /\ c \in Elements(boneMap'[p1].children)
                   /\ boneMap'[p1].children = boneMap[p1].children ]_vars

\* C25 witness: p1.addChild(c), then p2.addChild(c)
C25_Witness_ChildOfTwoParents ==
  /\ lastCall.op = "addChild" /\ lastCall.args = <<"p2", "c">>
  /\ boneMap["p1"].children = <<"c">>
  /\ boneMap["p2"].children = <<"c">>
  /\ boneMap["c"].parent = "p2"

\* C26: p.removeChild(c), when c is among p.children, takes c out of that list,
\* the other children keeping their order, and leaves c without parent; when c
\* is not among p.children it changes neither p.children nor c.parent, nor
\* anything else, whatever parent c has.
C26_RemoveChildTakesChildOut ==
  [][ lastCall'.op = "removeChild" =>
        LET p == lastCall'.args[1]
            c == lastCall'.args[2]
        IN  IF c \in Elements(boneMap[p].children)
              THEN /\ c \notin Elements(boneMap'[p].children)
                   /\ boneMap'[p].children = Without(boneMap[p].children, c)
                   /\ boneMap'[c].parent = null
              ELSE boneMap' = boneMap ]_vars

----------------------------------------------------------------------------
(* Properties of the display *)

\* the names of the bones that a list of drawing commands draws, in order
DrawnNames(commands) == [i \in DOMAIN commands |-> commands[i].name]

\* C27: draw is read-only and repeatable.  A call of draw ends, changes no
\* bone (local transform, world transform, parent, children), no clip, no
\* cursor field and nothing of the facade, also when there is no root; a
\* further draw would issue the commands that this one issued; and the
\* commands draw each bone that is reached from the root once, a bone after
\* the bone under which it is drawn.
C27_DrawIsReadOnlyAndDrawsEachBoneOnce ==
  [][ lastCall'.op = "draw" =>
        LET commands == lastCall'.args[1].bones
            drawn == DrawnNames(commands)
        IN  /\ drawBone(boneMap, root, 1).ok
            /\ UNCHANGED <<boneMap, animations, cursor, rig>>
            /\ lastCall'.args[1] = Drawing'
            /\ Elements(drawn) = Reached
            /\ \A i, j \in DOMAIN drawn : drawn[i] = drawn[j] => i = j
            /\ \A i \in DOMAIN drawn :
                 drawn[i] # root =>
                   \E j \in 1..(i - 1) : drawn[i] \in ChildrenOf(boneMap, drawn[j]) ]_vars

\* the calls inside which the cursor may change: play, stop and advanceTime,
\* the last one reached through update; loadArmature makes a new armature,
\* with a cursor of its own
CursorCalls == {"play", "stop", "update", "loadArmature"}

\* C28: the cursor changes only inside play, stop and advanceTime.  Every
\* other call (addBone, addAnimation, getBone, getAllBones,
\* updateWorldTransforms, the three bone setters, setPosition, setScale, draw)
\* leaves every cursor field as it was, and the cursor of a newly constructed
\* armature, the one that loadArmature builds, is empty: no clip, no clip
\* name, elapsed time 0, no completed loop, not playing.
C28_CursorChangesOnlyInPlayStopAdvance ==
  [][ /\ lastCall'.op \notin CursorCalls => UNCHANGED cursor
      /\ (lastCall'.op = "loadArmature" /\ lastCall'.args[2] = "returned") =>
           /\ currentAnimation' = NoAnim /\ currentAnimationName' = null
           /\ animationTime' = 0 /\ animationLoopCount' = 0 /\ ~isPlaying' ]_vars

\* C28 witness: while a clip is playing and has advanced, a clip has been
\* registered under its name; the cursor still holds the clip that was played
C28_Witness_ClipReplacedWhilePlaying ==
  /\ lastCall.op = "addAnimation" /\ lastCall.from = "Playing"
  /\ animationTime > 0
  /\ currentAnimationName = AddedClip[1]
  /\ currentAnimation # animations[currentAnimationName]

----------------------------------------------------------------------------
(* Properties of the tracks that sampling skips *)

\* a track that sampling skips: its bone is not registered, or it has no
\* keyframe
Skipped(bones, track) == track.boneName \notin DOMAIN bones \/ track.keyframes = << >>

\* the tracks of a clip without those that are skipped
KeptTracks(bones, tracks) == SelectSeq(tracks, LAMBDA track : ~Skipped(bones, track))

\* the tracks of a list applied one after the other, none of them skipped
RECURSIVE ApplyKept(_, _, _)
ApplyKept(bones, tracks, time) ==
  IF tracks = << >> THEN bones
  ELSE ApplyKept(ApplyTrack(bones, Head(tracks), time), Tail(tracks), time)

\* C29: when advanceTime samples the current clip, a track whose bone is not
\* registered or that has no keyframe is skipped: no bone is registered for it,
\* a bone that only skipped tracks name keeps every field, and the bones are
\* left exactly as sampling the clip without its skipped tracks leaves them.
C29_SkippedTracksLeaveNoTrace ==
  [][ (lastCall'.op = "advanceTime" /\ isPlaying /\ currentAnimation # NoAnim) =>
        LET tracks == AnimPool[currentAnimation].tracks
            kept == KeptTracks(boneMap, tracks)
        IN  /\ DOMAIN boneMap' = DOMAIN boneMap
            /\ \A name \in DOMAIN boneMap :
                 (\A i \in DOMAIN kept : kept[i].boneName # name) => boneMap'[name] = boneMap[name]
            /\ boneMap' = ApplyKept(boneMap, kept, animationTime') ]_vars

\* C29 witness: a clip with a track for a bone that is not registered and a
\* track without keyframes, both before tracks of the root, has been sampled on
\* an armature that has the root only, and the root has the rotation of the
\* last track
C29_Witness_TracksAfterSkippedApplied ==
  /\ lastCall.op = "advanceTime" /\ lastCall.from = "Playing"
  /\ currentAnimation = 2
  /\ DOMAIN boneMap = {"root"}
  /\ boneMap["root"].rotation = 6

----------------------------------------------------------------------------
(* Properties of the cursor as a whole *)

\* C30: the cursor is never partial.  After every sequence of play, stop,
\* advanceTime and addAnimation calls (and addBone calls), isPlaying implies
\* that there is a current clip; there is no current clip exactly when there
\* is no current clip name; and without a current clip the elapsed time is 0,
\* no loop is counted as completed and isPlaying is false.
C30_CursorIsNeverPartial ==
  /\ isPlaying => currentAnimation # NoAnim
  /\ currentAnimation = NoAnim <=> currentAnimationName = null
  /\ currentAnimation = NoAnim =>
       (animationTime = 0 /\ animationLoopCount = 0 /\ ~isPlaying)

\* C30 witness: stop has cleared the cursor of a clip that had run to the end
\* of its repeat budget, where time and loop count were not 0
C30_Witness_StoppedAfterExhaustion ==
  /\ lastCall.op = "stop" /\ lastCall.from = "Stopped"
  /\ currentAnimation = NoAnim

----------------------------------------------------------------------------
(* Properties of the elapsed time *)

\* C31: with a current clip of duration D > 0 (and advanceTime called with
\* dt >= 0), 0 <= animationTime <= D in every reachable state;
\* animationTime < D whenever isPlaying, and animationTime = D only when
\* playback has stopped on the clip (isPlaying false, the clip still current).
C31_ElapsedTimeWithinClip ==
  (currentAnimation # NoAnim /\ AnimPool[currentAnimation].duration > 0) =>
    LET D == AnimPool[currentAnimation].duration
    IN  /\ 0 <= animationTime /\ animationTime <= D
        /\ isPlaying => animationTime < D
        /\ animationTime = D => StoppedTerminal

\* C31 witness: playback has stopped at the end of a clip, after a call that
\* went past it
C31_Witness_ClampedAtClipEnd ==
  /\ lastCall.op = "advanceTime" /\ lastCall.from = "Playing"
  /\ StoppedTerminal
  /\ animationTime = AnimPool[currentAnimation].duration
  /\ sumDt > animationTime

----------------------------------------------------------------------------
(* Properties of the interpolation factor *)

\* v lies between a and b, in either order
Within(v, a, b) == (a <= v /\ v <= b) \/ (b <= v /\ v <= a)

\* on every channel that both keyframes define, the bone's value lies between
\* the values of the two
SampledWithin(bone, p, n) ==
  /\ (p.rotation # None /\ n.rotation # None)
       => Within(bone.rotation, p.rotation[1], n.rotation[1])
  /\ (p.position # None /\ n.position # None)
       => /\ Within(bone.position.x, p.position[1].x, n.position[1].x)
          /\ Within(bone.position.y, p.position[1].y, n.position[1].y)
  /\ (p.scale # None /\ n.scale # None)
       => /\ Within(bone.scale.x, p.scale[1].x, n.scale[1].x)
          /\ Within(bone.scale.y, p.scale[1].y, n.scale[1].y)

\* on every channel that the keyframes p and last both define, the bone has
\* the value of last
HoldsValuesOf(bone, p, last) ==
  /\ (p.rotation # None /\ last.rotation # None) => bone.rotation = last.rotation[1]
  /\ (p.position # None /\ last.position # None) => bone.position = last.position[1]
  /\ (p.scale # None /\ last.scale # None) => bone.scale = last.scale[1]

\* C32: for a track with keyframes ascending by time and a sample time within
\* the clip (0 <= time <= duration), the interpolation factor
\* (time - prev.time) / (next.time - prev.time) lies in [0, 1], each sampled
\* channel value lies between the values of the two keyframes used, and for a
\* time later than the last keyframe the pose holds the last keyframe's
\* values on the channels that are sampled.
C32_FactorWithinUnitInterval ==
  (Sampled /\ 0 <= SampledTime /\ SampledTime <= MaxTime) =>
    LET kf == SampledTrack
        time == SampledTime
        p == BracketPrev(kf, time)
        n == BracketNext(kf, time)
        last == kf[Len(kf)]
        bone == boneMap["root"]
    IN  /\ n.time - p.time > 0 => (0 <= time - p.time /\ time - p.time <= n.time - p.time)
        /\ SampledWithin(bone, p, n)
        /\ time > last.time => HoldsValuesOf(bone, p, last)

----------------------------------------------------------------------------
(* Properties of the current clip and the registry *)

\* C33: whenever there is a current clip, it is the clip that is registered
\* under currentAnimationName, after every interleaving of addAnimation (also
\* under a name that is already registered), play, stop and advanceTime.
C33_CurrentClipIsRegisteredClip ==
  currentAnimation # NoAnim =>
    /\ currentAnimationName \in DOMAIN animations
    /\ animations[currentAnimationName] = currentAnimation

----------------------------------------------------------------------------
(* Properties of the links between bones *)

\* C34: under every sequence of addChild and removeChild calls the links stay
\* consistent: for all bones p and c, c is among p.children exactly when
\* c.parent is p, and c is there at most once.
C34_LinksStayConsistent ==
  \A p \in DOMAIN boneMap, c \in DOMAIN boneMap :
    /\ c \in Elements(boneMap[p].children) <=> boneMap[c].parent = p
    /\ Occurrences(boneMap, p, c) <= 1

----------------------------------------------------------------------------
(* Properties of termination *)

\* C35: loadArmature and update end for every description, also with two
\* entries of one name, a bone that is its own parent or two bones that are
\* each other's parent: the computation of world transforms from the root
\* visits finitely many bones and returns, so every loadArmature returns and
\* the armature it leaves can be updated.
C35_LoadAndUpdateTerminate ==
  /\ lastCall.op = "loadArmature" => lastCall.args[2] = "returned"
  /\ loaded => WorldTransforms(boneMap, root).ok

----------------------------------------------------------------------------
(* Properties of playback that is advanced for ever *)

\* the advanceTime call of this step goes over the end of the current clip
CrossesEnd ==
  /\ lastCall'.op = "advanceTime" /\ isPlaying /\ currentAnimation # NoAnim
  /\ animationTime + lastCall'.args[1] >= AnimPool[currentAnimation].duration

\* C36: finite playback stops.  After play with a repeat count r >= 1 of a
\* clip of duration above 0, when advanceTime keeps being called with dt > 0,
\* playback that is not started again by a play is eventually not playing;
\* isPlaying becomes false at the r-th advanceTime call since the play that
\* goes over the clip end, not before and not later; and once false it stays
\* false until a play.
C36_FinitePlaybackStops ==
  /\ (isPlaying /\ lastCall.op # "play") ~> (~isPlaying \/ lastCall.op = "play")
  /\ [][ /\ CrossesEnd =>
              /\ animationLoopCount' = animationLoopCount + 1
              /\ ~isPlaying' <=> animationLoopCount' = animationPlayTimes
         /\ (lastCall'.op = "advanceTime" /\ isPlaying /\ ~CrossesEnd) =>
              (isPlaying' /\ animationLoopCount' = animationLoopCount)
         /\ (~isPlaying /\ isPlaying') => lastCall'.op = "play" ]_vars

\* C36 witness: playback with repeat count 2 has stopped at the second call
\* that went over the clip end
C36_Witness_StoppedAtSecondCrossing ==
  /\ lastCall.op = "advanceTime" /\ lastCall.from = "Playing"
  /\ ~isPlaying
  /\ animationPlayTimes = 2 /\ animationLoopCount = 2

----------------------------------------------------------------------------
(* Properties of a clip of duration 0 *)

\* C37: a clip of duration 0 never ends.  The loader registers a clip that
\* is declared with duration 0 with that duration; while such a clip is
\* current, whatever the repeat count it was played with, animationTime is the
\* sum of the dt of the advances since the play (nothing is wrapped),
\* animationLoopCount is 0 and isPlaying is true, so only a stop or another
\* play ends it.
C37_EmptyClipNeverCompletes ==
  /\ Loaded =>
       LET entries == Nullish(Skeletons[lastCall.args[1]].animations, << >>)
       IN  \A i \in DOMAIN entries :
             entries[i][2].duration = Some(0)
               => AnimPool[animations[entries[i][1]]].duration = 0
  /\ (currentAnimation # NoAnim /\ AnimPool[currentAnimation].duration = 0) =>
       /\ animationTime = sumDt
       /\ animationLoopCount = 0
       /\ isPlaying

\* C37 witness: a clip of duration 0, loaded from a description and played
\* once, is still playing after updates that sum up to more than one tick
C37_Witness_EmptyClipStillPlaying ==
  /\ lastCall.op = "update"
  /\ currentAnimation # NoAnim /\ AnimPool[currentAnimation].duration = 0
  /\ animationPlayTimes = 1
  /\ animationTime > 1

----------------------------------------------------------------------------
(* Manual poses against sampled poses *)

\* the tracks of a clip that write a channel of a bone at a time: those that
\* name the bone, have keyframes, and whose two bracketing keyframes both
\* define the channel
WritingTracks(tracks, bone, channel, time) ==
  {i \in DOMAIN tracks :
     /\ tracks[i].boneName = bone
     /\ tracks[i].keyframes # << >>
     /\ BracketPrev(tracks[i].keyframes, time)[channel] # None
     /\ BracketNext(tracks[i].keyframes, time)[channel] # None}

\* the value a track gives to a channel at a time
TrackValue(track, channel, time) ==
  LET p == BracketPrev(track.keyframes, time)
      n == BracketNext(track.keyframes, time)
  IN  IF channel = "rotation"
        THEN Between(p.rotation[1], n.rotation[1], p.time, n.time, time)
        ELSE Vec(Between(p[channel][1].x, n[channel][1].x, p.time, n.time, time),
                 Between(p[channel][1].y, n[channel][1].y, p.time, n.time, time))

ChannelNames == {"rotation", "position", "scale"}

\* the tracks sampled by a call of update made in this state
TracksPlaying ==
  IF isPlaying /\ currentAnimation # NoAnim THEN AnimPool[currentAnimation].tracks ELSE << >>

\* C38: a local value written by setBoneRotation, setBonePosition or
\* setBoneScale survives an update iff the playing clip has no track for that
\* bone whose two bracketing keyframes both define that channel, or nothing is
\* playing; otherwise the update overwrites it with the sampled value, and the
\* world transforms after the update are those of the sampled value.
C38_ManualValueSurvivesUnlessSampled ==
  [][ (lastCall'.op = "update" /\ loaded) =>
        /\ \A bone \in DOMAIN boneMap : \A channel \in ChannelNames :
             LET writing == WritingTracks(TracksPlaying, bone, channel, animationTime')
             IN  IF writing = {}
                   THEN boneMap'[bone][channel] = boneMap[bone][channel]
                   ELSE boneMap'[bone][channel] =
                          TrackValue(TracksPlaying[CHOOSE i \in writing :
                                                     \A j \in writing : j <= i],
                                     channel, animationTime')
        /\ IsTree(boneMap', root) =>
             /\ \A v \in Basis :
                  Apply(boneMap'[root].worldTransform, v) = LocalPoint(boneMap'[root], v)
             /\ \A n \in Descendants(boneMap', root) : \A v \in Basis :
                  Apply(boneMap'[n].worldTransform, v) =
                    Apply(boneMap'[boneMap'[n].parent].worldTransform,
                          LocalPoint(boneMap'[n], v)) ]_vars

\* after an update that sampled the clip moving the arm, the arm has the
\* sampled rotation, position and scale although all three had been set by
\* hand, the root keeps the three values set by hand, and the world translation
\* of the arm is the sampled position turned and scaled by the root
C38_Witness_ArmSampledRootKept ==
  /\ lastCall.op = "update" /\ lastCall.from = "Playing"
  /\ currentAnimation = 5 /\ animationTime = 1
  /\ boneMap["arm"].rotation = 6
  /\ boneMap["arm"].position = Vec(6, 6)
  /\ boneMap["arm"].scale = Vec(9, 6)
  /\ boneMap["root"].rotation = 12
  /\ boneMap["root"].position = Vec(6, 18)
  /\ boneMap["root"].scale = Vec(2, 3)
  /\ boneMap["arm"].worldTransform.tx = 6 - 2 * 6
  /\ boneMap["arm"].worldTransform.ty = 18 - 3 * 6

----------------------------------------------------------------------------
(* Playback control and the pose *)

\* C39: play and stop never modify a bone: after either call every bone's
\* local rotation, position, scale and world transform are what they were
\* before; stop leaves the skeleton in the last sampled pose, and play does not
\* apply the clip's pose at time 0 before the next advanceTime.
C39_PlayAndStopLeaveBones ==
  [][ lastCall'.op \in {"play", "stop"} =>
        /\ DOMAIN boneMap' = DOMAIN boneMap
        /\ \A b \in DOMAIN boneMap :
             /\ boneMap'[b].rotation = boneMap[b].rotation
             /\ boneMap'[b].position = boneMap[b].position
             /\ boneMap'[b].scale = boneMap[b].scale
             /\ boneMap'[b].worldTransform = boneMap[b].worldTransform ]_vars

\* a stop that ended a playing clip, after which the root still has a rotation
\* the clip gave it and not the one it was constructed with
C39_Witness_StoppedInSampledPose ==
  /\ lastCall.op = "stop" /\ lastCall.from = "Playing"
  /\ currentAnimation = NoAnim
  /\ "root" \in DOMAIN boneMap
  /\ boneMap["root"].rotation \in {6, 12}

----------------------------------------------------------------------------
(* The controller and the single cursor *)

ControllerEvents == {"mouthState", "eyeState", "isTalking", "onStateChange"}

\* the calls the last handler made on the rigging
Issued == lastCall.args[2]

\* the positions, in a list of calls, of the plays of a name that is registered
\* in the armature the facade holds
RegisteredPlays(calls) ==
  {i \in DOMAIN calls :
     calls[i].op = "playAnimation" /\ loaded /\ calls[i].name \in DOMAIN animations}

Latest(S) == CHOOSE i \in S : \A j \in S : j <= i

\* C40: all playAnimation calls of the controller (on mouthState, eyeState and
\* isTalking changes, and on state changes, which play each animation of the new
\* state in list order) share the single cursor of the armature: after each
\* handler the current clip is the one named by the most recent call whose name
\* is registered, and it is the clip that was current before when no call of
\* the handler names a registered clip; the stopAnimation('talking') made when
\* isTalking becomes false changes the cursor only if 'talking' is the current
\* clip.
C40_ControllerSharesOneCursor ==
  [][ lastCall'.op \in ControllerEvents =>
        LET calls == Issued'
            plays == RegisteredPlays(calls)
            stops == {i \in DOMAIN calls : calls[i].op = "stopAnimation"}
        IN  /\ (stops = {} /\ plays = {}) => cursor' = cursor
            /\ (stops = {} /\ plays # {}) =>
                 /\ currentAnimationName' = calls[Latest(plays)].name
                 /\ currentAnimation' = animations[calls[Latest(plays)].name]
                 /\ isPlaying' /\ animationTime' = 0 /\ animationLoopCount' = 0
                 /\ animationPlayTimes' = -1
            /\ stops # {} =>
                 /\ calls = << [op |-> "stopAnimation", name |-> "talking", times |-> 0] >>
                 /\ lastCall'.op = "isTalking" /\ lastCall'.args[1] = FALSE
                 /\ cursor' # cursor => currentAnimationName = "talking"
                 /\ currentAnimationName = "talking" =>
                      currentAnimation' = NoAnim /\ currentAnimationName' = null /\ ~isPlaying' ]_vars

\* isTalking became false while a clip started by an eyeState change was
\* current: the stop of 'talking' left that clip playing at its elapsed time
C40_Witness_StopOfTalkingLeftEyeClip ==
  /\ lastCall.op = "isTalking" /\ parameters.isTalking = FALSE
  /\ Issued # << >> /\ Issued[1].op = "stopAnimation"
  /\ currentAnimationName = "eyes_closed" /\ parameters.eyeState = 1
  /\ isPlaying /\ animationTime > 0

====
